---- MODULE Spec2Model ----
(***************************************************************************)
(* Session / attempt lifecycle of the clicker game.                        *)
(*                                                                         *)
(* The authoritative logic is the PostgreSQL function record_attempt       *)
(* (supabase_setup.md, Script 5) together with its helper                  *)
(* calculate_smiles_from_ranges (Script 3) and the trigger handle_new_user *)
(* (Script 4).  The browser side is the hook useSupabase                   *)
(* (recordAttempt, getUser, getUserAttempts, resetUserAttempts) and the    *)
(* hook useGameSession (handleAttemptSubmit).                              *)
(*                                                                         *)
(* record_attempt is a single plpgsql function, so it runs in one          *)
(* transaction; PostgreSQL's default isolation level is READ COMMITTED and *)
(* the function takes no row lock when it reads (plain SELECT, no          *)
(* FOR UPDATE).  A call is modelled as two steps: the SELECT of the user   *)
(* row, and the rest of the body up to the commit.  An UPDATE of a row     *)
(* waits for an uncommitted UPDATE of the same row by another call; as     *)
(* every written value comes from the call's own variables, waiting only   *)
(* orders the commits, which the interleaving of the second steps covers.  *)
(*                                                                         *)
(* Time is counted in whole minutes.                                       *)
(***************************************************************************)
EXTENDS Integers, Sequences, FiniteSets, TLC

VARIABLES
    now,            \* wall clock (minutes)
    game_settings,  \* row id = 1 of public.game_settings
    users,          \* public.users: player -> row
    attempts,       \* public.attempts: rows in commit order
    inserted,       \* number of rows ever inserted into public.attempts
    pc,             \* per connection: position inside record_attempt
    loc,            \* per connection: the DECLARE block of record_attempt
    res,            \* per connection: outcome of its last record_attempt call
    store,          \* browser: useGameStore().settings (NoSettings until loaded)
    rst,            \* per player: position inside resetUserAttempts ("idle",
                    \* "updated" before the DELETE, "caught" in the catch block)
    hpc,            \* useGameSession: position inside loadInitialData / handleAttemptSubmit
    currentUser,    \* useGameSession: state currentUser
    hookAttempts,   \* useGameSession: state attempts (the current-session view)
    isSubmitting,   \* useGameSession: state isSubmitting
    previousAttemptsLeft, \* handleAttemptSubmit: const previousAttemptsLeft
    cooldownEndTime, \* useGameSession: state cooldownEndTime (minutes, or NULL)
    sess,           \* per player (history): the session opened by the last reset
    util,           \* browser: a call of calculateSmiles or of the offset computation
    isClickDelayed, \* Game: state isClickDelayed
    clicked         \* Game (history): what the last click on the button saw and did

server == <<game_settings, users, attempts, inserted>>
rpc == <<pc, loc, res>>
hook == <<hpc, currentUser, hookAttempts, isSubmitting, previousAttemptsLeft,
          cooldownEndTime>>
game == <<isClickDelayed, clicked>>
vars == <<now, game_settings, users, attempts, inserted, pc, loc, res, store, rst,
          hpc, currentUser, hookAttempts, isSubmitting, previousAttemptsLeft,
          cooldownEndTime, sess, util, isClickDelayed, clicked>>

----------------------------------------------------------------------------
(* Bounds of the model *)

MaxTime == 3
MaxRows == 3
MaxDifference == 150    \* largest offset handed to calculateSmiles
MaxBands == 2           \* longest band list handed to calculateSmiles
MaxEdge == 2            \* largest min or max of a band in such a list
MaxMinutes == 10        \* longest remaining cooldown handed to formatRemainingCooldown

(* SQL NULL / JavaScript null of an integer or timestamp column *)
NULL == -1

Players == {"p1", "p2"}

(* Connections to the database.  "h" is the browser tab whose              *)
(* useGameSession hook is modelled; the others are further tabs or devices *)
(* whose calls reach record_attempt directly; "d1" is a tab of the second  *)
(* player.                                                                 *)
Conns == {"h", "c1", "c2", "d1"}
HookConn == "h"

(* every connection is authenticated as a player: auth.uid() *)
auth_uid(c) == IF c = "d1" THEN "p2" ELSE "p1"

Min(a, b) == IF a < b THEN a ELSE b
Max(a, b) == IF a > b THEN a ELSE b

----------------------------------------------------------------------------
(* jsonb column smile_ranges: SQL NULL or an array of {min, max, smiles} *)

JsonNull == [isnull |-> TRUE, arr |-> <<>>]
JsonArr(a) == [isnull |-> FALSE, arr |-> a]
Range(lo, hi, s) == [min |-> lo, max |-> hi, smiles |-> s]

ServerDefaultRanges ==
    << Range(0, 0, 33), Range(1, 10, 15), Range(11, 50, 10),
       Range(51, 100, 5), Range(101, NULL, 3) >>

RECURSIVE FirstMatch(_, _, _)
FirstMatch(difference_value, ranges, i) ==
    IF i > Len(ranges) THEN 0
    ELSE IF /\ difference_value >= ranges[i].min
            /\ (ranges[i].max = NULL \/ difference_value <= ranges[i].max)
         THEN ranges[i].smiles
         ELSE FirstMatch(difference_value, ranges, i + 1)

calculate_smiles_from_ranges(difference_value, smile_ranges) ==
    LET effective == IF smile_ranges.isnull \/ Len(smile_ranges.arr) = 0
                     THEN ServerDefaultRanges
                     ELSE smile_ranges.arr
    IN  FirstMatch(difference_value, effective, 1)

----------------------------------------------------------------------------
(* utils/gameUtils.ts calculateSmiles(difference, ranges), with           *)
(* ranges: SmileRange[] | null | undefined                                 *)

JsNull == [kind |-> "null", arr |-> <<>>]
JsUndefined == [kind |-> "undefined", arr |-> <<>>]
JsArray(a) == [kind |-> "array", arr |-> a]

(* lines 13-19 *)
ClientDefaultRanges ==
    << Range(0, 0, 33), Range(1, 10, 15), Range(11, 50, 10),
       Range(51, 100, 5), Range(101, NULL, 3) >>

(* a variant of line 11 that falls back on null and undefined only *)
effectiveRangesOfArray(ranges) ==
    IF ranges.kind = "array" THEN ranges.arr ELSE ClientDefaultRanges

(* lines 11-19: Array.isArray(ranges) && ranges.length > 0 ? ranges : [..] *)
effectiveRanges(ranges) ==
    IF ranges.kind = "array" /\ Len(ranges.arr) > 0
    THEN ranges.arr
    ELSE ClientDefaultRanges

(* Array.prototype.sort with (a, b) => a.min - b.min is stable: bands of *)
(* equal min keep the order they had                                     *)
RECURSIVE InsertByMin(_, _)
InsertByMin(sorted, range) ==
    IF sorted = <<>> THEN <<range>>
    ELSE IF Head(sorted).min <= range.min
         THEN <<Head(sorted)>> \o InsertByMin(Tail(sorted), range)
         ELSE <<range>> \o sorted

RECURSIVE SortByMin(_)
SortByMin(ranges) ==
    IF ranges = <<>> THEN <<>>
    ELSE InsertByMin(SortByMin(SubSeq(ranges, 1, Len(ranges) - 1)),
                     ranges[Len(ranges)])

(* a variant of line 25 that leaves the bands in their stored order *)
sortedRangesStored(effective) == effective

(* line 25: [...effectiveRanges].sort((a, b) => a.min - b.min) *)
sortedRanges(effective) == SortByMin(effective)

(* lines 27-30: Array.prototype.find, as the index of the band found, or 0 *)
RECURSIVE matchingRange(_, _, _)
matchingRange(difference, sorted, i) ==
    IF i > Len(sorted) THEN 0
    ELSE IF /\ difference >= sorted[i].min
            /\ (sorted[i].max = NULL \/ difference <= sorted[i].max)
         THEN i
         ELSE matchingRange(difference, sorted, i + 1)

(* lines 9-34 *)
calculateSmiles(difference, ranges) ==
    LET sorted == sortedRanges(effectiveRanges(ranges))
        found == matchingRange(difference, sorted, 1)
    IN  IF found # 0 THEN sorted[found].smiles ELSE 0

----------------------------------------------------------------------------
(* The offset of a click from the whole second *)

(* a variant of calculateDifference that does not fold the second half *)
calculateDifferenceRaw(ms) == ms

(* calculateDifference(ms), lines 16-25 *)
calculateDifference(ms) ==
    IF ms = 0 THEN 0
    ELSE IF ms < 500 THEN ms
    ELSE 1000 - ms

(* Game.tsx handleButtonClick, lines 308-309: const diff *)
diff(milliseconds) ==
    IF milliseconds < 500 THEN milliseconds ELSE 1000 - milliseconds

----------------------------------------------------------------------------
(* utils/gameUtils.ts formatRemainingCooldown(cooldownEndTimestamp), *)
(* times in milliseconds                                              *)

(* a variant of line 50 with Math.floor for Math.ceil *)
remainingMinutesFloor(remainingMilliseconds) ==
    remainingMilliseconds \div (1000 * 60)

(* line 50: Math.ceil(remainingMilliseconds / (1000 * 60)), of a positive *)
(* whole number of milliseconds                                           *)
remainingMinutes(remainingMilliseconds) ==
    IF remainingMilliseconds % (1000 * 60) = 0
    THEN remainingMilliseconds \div (1000 * 60)
    ELSE remainingMilliseconds \div (1000 * 60) + 1

(* lines 42-57; the template literal writes the number in decimal *)
formatRemainingCooldown(cooldownEndTimestamp, dateNow) ==
    LET remainingMilliseconds == cooldownEndTimestamp - dateNow
    IN  IF remainingMilliseconds <= 0 THEN "available now"
        ELSE IF remainingMinutes(remainingMilliseconds) <= 1
             THEN "in less than a minute"
             ELSE "in " \o ToString(remainingMinutes(remainingMilliseconds))
                        \o " minutes"

----------------------------------------------------------------------------
(* Expressions of record_attempt *)

DefaultCooldownMinutes == 60
DefaultAttemptsNumber == 10

EffectiveCooldown(cooldown_minutes) ==
    IF cooldown_minutes = NULL \/ cooldown_minutes <= 0
    THEN DefaultCooldownMinutes
    ELSE cooldown_minutes

(* a variant of line 218 that takes the last attempt for none left *)
ExhaustedAtOne(current_attempts_left) == current_attempts_left <= 1

(* line 218: IF current_attempts_left <= 0, the test that leads to the *)
(* cooldown check                                                      *)
Exhausted(current_attempts_left) == current_attempts_left <= 0

(* a variant of line 223 with the comparison turned round *)
CooldownPassedReversed(last_attempt_at, current_time_check, cooldown_interval) ==
    /\ last_attempt_at # NULL
    /\ last_attempt_at > current_time_check - cooldown_interval

(* a variant of line 223 with IS NULL for IS NOT NULL *)
CooldownPassedWhenNull(last_attempt_at, current_time_check, cooldown_interval) ==
    /\ last_attempt_at = NULL
    /\ last_attempt_at < current_time_check - cooldown_interval

(* line 223: the cooldown has passed when the last attempt lies strictly *)
(* before now() - cooldown_interval                                       *)
CooldownPassed(last_attempt_at, current_time_check, cooldown_interval) ==
    /\ last_attempt_at # NULL
    /\ last_attempt_at < current_time_check - cooldown_interval

(* a variant of line 253 that keeps the latest offset *)
NewBestResultLatest(current_best_result, difference_value) ==
    difference_value

(* a variant of line 253 with GREATEST for LEAST *)
NewBestResultGreatest(current_best_result, difference_value) ==
    LET coalesced == IF current_best_result = NULL THEN difference_value
                     ELSE current_best_result
    IN  IF coalesced > difference_value THEN coalesced ELSE difference_value

(* line 253: LEAST(COALESCE(current_best_result, difference_value), *)
(* difference_value)                                                 *)
NewBestResult(current_best_result, difference_value) ==
    LET coalesced == IF current_best_result = NULL THEN difference_value
                     ELSE current_best_result
    IN  IF coalesced < difference_value THEN coalesced ELSE difference_value

(* a variant of line 255 that rewards the attempt's own offset *)
SmilesForAttempt(new_best_result, difference_value, smile_ranges) ==
    calculate_smiles_from_ranges(difference_value, smile_ranges)

(* line 255: the smiles of the best result, under the bands in force *)
SmilesForBest(new_best_result, difference_value, smile_ranges) ==
    calculate_smiles_from_ranges(new_best_result, smile_ranges)

(* a lost variant of line 260: the decrement taken from the row itself *)
AttemptsLeftRelative(current_attempts_left, row_attempts_left) ==
    row_attempts_left - 1

(* line 260: attempts_left = current_attempts_left - 1, from the variable *)
(* the SELECT filled, not from the row as it is at the UPDATE             *)
AttemptsLeftAfter(current_attempts_left, row_attempts_left) ==
    current_attempts_left - 1

----------------------------------------------------------------------------
(* Rows *)

NewUser(attempts_setting) ==
    [attempts_left |-> attempts_setting, total_smiles |-> 0,
     best_result |-> NULL, last_attempt_at |-> NULL]

(* currentUser = null *)
NoUser ==
    [attempts_left |-> NULL, total_smiles |-> NULL,
     best_result |-> NULL, last_attempt_at |-> NULL]

(* useGameStore: settings = null *)
NoSettings ==
    [attempts_number |-> NULL, cooldown_minutes |-> NULL, smile_ranges |-> JsonNull]

NoLocals ==
    [difference_value |-> NULL, current_time_check |-> NULL,
     current_attempts_left |-> NULL, current_last_attempt_at |-> NULL,
     current_best_result |-> NULL]

(* Error messages are sequences of fragments of text; a message contains *)
(* a phrase when the phrase is one of its fragments.                      *)
includes(message, phrase) == \E i \in DOMAIN message : message[i] = phrase

(* the messages of record_attempt's RAISE EXCEPTION, lines 241 and 246 *)
CooldownMessage == <<"Cooldown active", ". Try again later.">>
NoAttemptsMessage == <<"No attempts left", ".">>

(* messages of errors the database or the network reports for a call *)
DatabaseErrors ==
    { <<"new row violates row-level security policy for table ", "attempts">>,
      <<"Failed to fetch">> }

(* recordAttempt when it has caught nothing: setError(null), no toast,   *)
(* return true                                                            *)
NoReport == [success |-> TRUE, error |-> <<>>, toast |-> <<>>]

(* a variant of lines 75-84 in which the last branch reports a cooldown *)
recordAttemptCatchAsCooldown(errorMessage) ==
    IF includes(errorMessage, "Cooldown active")
    THEN [success |-> FALSE,
          error |-> <<"Cooldown active. Try again later.">>, toast |-> <<>>]
    ELSE IF includes(errorMessage, "No attempts left")
    THEN [success |-> FALSE,
          error |-> <<"No attempts left.">>, toast |-> <<"No attempts left.">>]
    ELSE [success |-> FALSE,
          error |-> <<"Cooldown active. Try again later.">>, toast |-> <<>>]

(* useSupabase.ts recordAttempt, lines 66-85: the error state and the    *)
(* toast chosen from the text of the caught error, and return false      *)
recordAttemptCatch(errorMessage) ==
    IF includes(errorMessage, "Cooldown active")
    THEN [success |-> FALSE,
          error |-> <<"Cooldown active. Try again later.">>, toast |-> <<>>]
    ELSE IF includes(errorMessage, "No attempts left")
    THEN [success |-> FALSE,
          error |-> <<"No attempts left.">>, toast |-> <<"No attempts left.">>]
    ELSE [success |-> FALSE,
          error |-> <<"Failed to record attempt: ">> \o errorMessage,
          toast |-> <<"Failed to record attempt: ">> \o errorMessage]

NoResult ==
    [outcome |-> "none", race |-> FALSE, sync |-> TRUE, report |-> NoReport,
     reset |-> FALSE]

RowsOf(p) == SelectSeq(attempts, LAMBDA r : r.user_id = p)

(* getUserAttempts: ORDER BY created_at DESC LIMIT limit.  created_at is   *)
(* now() of the inserting call; calls made one after another get strictly  *)
(* increasing created_at, so the newest row is the one committed last.     *)
getUserAttempts(p, limit) ==
    LET rows == RowsOf(p)
        n == Len(rows)
    IN  [i \in 1..Min(Max(limit, 0), n) |-> rows[n + 1 - i]]

(* Array.prototype.slice(0, end) *)
Slice0(arr, end) ==
    LET k == IF end < 0 THEN Max(Len(arr) + end, 0) ELSE Min(end, Len(arr))
    IN  SubSeq(arr, 1, k)

(* store/game.ts loadSettings, lines 42-49: the row read, with smile_ranges *)
(* replaced by the defaults when it is not an array                        *)
Loaded(settings) ==
    [settings EXCEPT !.smile_ranges =
        IF settings.smile_ranges.isnull THEN JsonArr(ServerDefaultRanges)
        ELSE settings.smile_ranges]

(* a call of one of these functions: its arguments, and its result once *)
(* it has returned                                                       *)
NoCall ==
    [fn |-> "none", ms |-> NULL, difference |-> NULL, ranges |-> JsUndefined,
     smiles |-> NULL, cooldownEndTimestamp |-> NULL, dateNow |-> NULL,
     text |-> "", settings |-> NoSettings, loaded |-> NoSettings,
     bands |-> <<>>, minutes |-> NULL, user |-> NoUser, endTime |-> NULL,
     returned |-> FALSE]
SmilesCall(difference, ranges) ==
    [NoCall EXCEPT !.fn = "calculateSmiles", !.difference = difference,
                   !.ranges = ranges]
DifferenceCall(fn, ms) == [NoCall EXCEPT !.fn = fn, !.ms = ms]
CooldownCall(cooldownEndTimestamp, dateNow) ==
    [NoCall EXCEPT !.fn = "formatRemainingCooldown",
                   !.cooldownEndTimestamp = cooldownEndTimestamp,
                   !.dateNow = dateNow]
SettingsCall(fn, settings) == [NoCall EXCEPT !.fn = fn, !.settings = settings]

----------------------------------------------------------------------------
(* The settings store (useGameStore).  The repository holds it twice: as  *)
(* store/game.ts, and as a later copy that also looks after               *)
(* cooldown_minutes and has getCooldownMinutes.  A settings value of null *)
(* is NoSettings.                                                         *)

defaultCooldownMinutes == 60

defaultSmileRanges ==
    << Range(0, 0, 33), Range(1, 10, 15), Range(11, 50, 10),
       Range(51, 100, 5), Range(101, NULL, 3) >>

(* store/game.ts loadSettings, lines 41-49: settings ? {...} : null, with *)
(* Array.isArray(settings.smile_ranges) ? settings.smile_ranges : default *)
loadedSettingsOfArray(settings) ==
    IF settings = NoSettings THEN NoSettings ELSE Loaded(settings)

(* the later copy, loadSettings lines 47-63 *)
loadedSettings(settings) ==
    IF settings = NoSettings THEN NoSettings
    ELSE [settings EXCEPT
            !.smile_ranges =
                IF ~settings.smile_ranges.isnull /\ Len(settings.smile_ranges.arr) > 0
                THEN settings.smile_ranges
                ELSE JsonArr(defaultSmileRanges),
            !.cooldown_minutes =
                IF settings.cooldown_minutes # NULL /\ settings.cooldown_minutes > 0
                THEN settings.cooldown_minutes
                ELSE defaultCooldownMinutes]

(* getSmileRanges, the same in both copies *)
getSmileRanges(settings) ==
    IF /\ settings # NoSettings
       /\ ~settings.smile_ranges.isnull
       /\ Len(settings.smile_ranges.arr) > 0
    THEN settings.smile_ranges.arr
    ELSE defaultSmileRanges

(* getCooldownMinutes, of the later copy *)
getCooldownMinutes(settings) ==
    IF /\ settings # NoSettings
       /\ settings.cooldown_minutes # NULL
       /\ settings.cooldown_minutes > 0
    THEN settings.cooldown_minutes
    ELSE defaultCooldownMinutes

(* a variant of line 87 that keeps the end time at the very instant *)
cooldownEndAtOrBefore(user, settings, dateNow, minute) ==
    LET cooldownMinutes == IF settings.cooldown_minutes = NULL THEN 60
                           ELSE settings.cooldown_minutes
        endTime == user.last_attempt_at + cooldownMinutes * minute
    IN  IF user # NoUser /\ user.attempts_left <= 0 /\ user.last_attempt_at # NULL
        THEN (IF dateNow <= endTime THEN endTime ELSE NULL)
        ELSE NULL

(* useGameSession.ts lines 77-95: the effect that follows every change of *)
(* currentUser or of settings.cooldown_minutes; dateNow is Date.now() of  *)
(* that moment and minute the length of a minute in the unit of the       *)
(* clock (60 * 1000 in the browser).                                      *)
cooldownEndAt(user, settings, dateNow, minute) ==
    LET lastAttemptTime == user.last_attempt_at
        cooldownMinutes == IF settings.cooldown_minutes = NULL THEN 60
                           ELSE settings.cooldown_minutes
        cooldownMilliseconds == cooldownMinutes * minute
        endTime == lastAttemptTime + cooldownMilliseconds
    IN  IF user # NoUser /\ user.attempts_left <= 0 /\ user.last_attempt_at # NULL
        THEN (IF dateNow < endTime THEN endTime ELSE NULL)
        ELSE NULL

(* the same effect on the clock of the sessions, which counts minutes *)
cooldownEnd(user, settings, dateNow) ==
    cooldownEndAt(user, settings, dateNow, 1)

(* the effect applied to a user record, the settings and a Date.now() *)
EffectCall(user, settings, dateNow) ==
    [NoCall EXCEPT !.fn = "cooldown effect", !.user = user,
                   !.settings = settings, !.dateNow = dateNow]

(* Game.tsx: no click on the button yet *)
NoClick ==
    [outcome |-> "none", toast |-> "", exhausted |-> FALSE, cooling |-> FALSE,
     delayed |-> FALSE, submitting |-> FALSE, overlap |-> FALSE,
     previous |-> "none"]

(* settings?.attempts_number ?? 10 *)
AttemptsLimit(settings) ==
    IF settings.attempts_number = NULL THEN DefaultAttemptsNumber
    ELSE settings.attempts_number

InFlight == {c \in Conns : pc[c] # "idle"}

Busy ==
    \/ InFlight # {}
    \/ \E p \in Players : rst[p] # "idle"
    \/ hpc # "idle"

----------------------------------------------------------------------------
(* Worlds: the inputs a specification draws from *)

SettingsA == [attempts_number |-> 2, cooldown_minutes |-> 2, smile_ranges |-> JsonNull]
SettingsB == [attempts_number |-> 1, cooldown_minutes |-> 1,
              smile_ranges |-> JsonArr(<< Range(0, 5, 7), Range(6, NULL, 1) >>)]

SettingsC == [attempts_number |-> 2, cooldown_minutes |-> 1, smile_ranges |-> JsonNull]

World ==
    [offsets |-> {0, 5, 10}, settings |-> {SettingsA, SettingsB},
     conns |-> {"c1"}, serial |-> TRUE, dynamic |-> TRUE, rows |-> MaxRows]
WorldConc ==
    [offsets |-> {5, 10}, settings |-> {SettingsC},
     conns |-> {"c1", "c2"}, serial |-> FALSE, dynamic |-> FALSE, rows |-> MaxRows]
(* the worked example: three attempts per session, an hour of cooldown,   *)
(* the default bands; the offsets 100, 0, 50 and a fourth call            *)
ExampleOffsets == <<100, 0, 50>>
SettingsExample ==
    [attempts_number |-> Len(ExampleOffsets),
     cooldown_minutes |-> DefaultCooldownMinutes, smile_ranges |-> JsonNull]
WorldExample ==
    [offsets |-> {ExampleOffsets[i] : i \in DOMAIN ExampleOffsets},
     settings |-> {SettingsExample},
     conns |-> {"c1"}, serial |-> TRUE, dynamic |-> FALSE,
     rows |-> Len(ExampleOffsets) + 1]

(* the tie example: the offsets 10, 5, 5, 20 within one session, under the *)
(* default bands or under bands an administrator has changed               *)
TieOffsets == <<10, 5, 5, 20>>
SettingsTie ==
    [attempts_number |-> Len(TieOffsets), cooldown_minutes |-> 1,
     smile_ranges |-> JsonNull]
SettingsTieChanged ==
    [SettingsTie EXCEPT !.smile_ranges =
        JsonArr(<< Range(0, 5, 7), Range(6, NULL, 1) >>)]
WorldTie ==
    [offsets |-> {TieOffsets[i] : i \in DOMAIN TieOffsets},
     settings |-> {SettingsTie, SettingsTieChanged},
     conns |-> {"c1"}, serial |-> TRUE, dynamic |-> TRUE,
     rows |-> Len(TieOffsets)]

(* concurrent calls around the cooldown of a one-attempt session *)
WorldRace ==
    [offsets |-> {5, 10}, settings |-> {SettingsB},
     conns |-> {"c1", "c2"}, serial |-> FALSE, dynamic |-> FALSE, rows |-> MaxRows]

(* two tabs calling one at a time, with database errors and with a      *)
(* setting of no attempts at all                                          *)
SettingsZero == [SettingsB EXCEPT !.attempts_number = 0]
WorldFault ==
    [offsets |-> {5, 10}, settings |-> {SettingsB, SettingsZero},
     conns |-> {"c1", "c2"}, serial |-> TRUE, dynamic |-> TRUE, rows |-> MaxRows]

(* a player who keeps playing in one tab: calls and manual resets       *)
(* interleaving, no change of the settings                              *)
WorldLive ==
    [offsets |-> {5}, settings |-> {SettingsA, SettingsB},
     conns |-> {"c1"}, serial |-> FALSE, dynamic |-> FALSE, rows |-> MaxRows]

(* one tab with the hook, its player alone, with database errors, with  *)
(* refreshes that fail and with a setting of no attempts at all          *)
WorldSubmit ==
    [offsets |-> {5}, settings |-> {SettingsB, SettingsZero},
     conns |-> {"h"}, serial |-> TRUE, dynamic |-> TRUE, rows |-> MaxRows]

(* two players, their calls and resets interleaving *)
WorldTwo ==
    [offsets |-> {5}, settings |-> {SettingsB},
     conns |-> {"c1", "d1"}, serial |-> FALSE, dynamic |-> FALSE, rows |-> MaxRows]

(* one browser tab with the Game component, its player alone *)
WorldGame ==
    [offsets |-> {5}, settings |-> {SettingsA, SettingsB},
     conns |-> {"h"}, serial |-> TRUE, dynamic |-> FALSE, rows |-> MaxRows]

WorldHook ==
    [offsets |-> {5, 10}, settings |-> {SettingsA, SettingsB},
     conns |-> {"h", "c1"}, serial |-> TRUE, dynamic |-> FALSE, rows |-> MaxRows]

(* the calls of the browser's pure functions: calculateSmiles with no    *)
(* band list and every offset up to MaxDifference, calculateSmiles with  *)
(* every list of up to MaxBands bands in any order, overlapping or with  *)
(* gaps, the offset of every millisecond of the second, and              *)
(* formatRemainingCooldown at, just before, just after and half a minute *)
(* after every whole minute up to MaxMinutes, and in the past; the       *)
(* functions of the settings store on no row and on rows with and        *)
(* without bands and with a cooldown that is null, zero, negative or     *)
(* positive                                                              *)
SettingsRows ==
    {[attempts_number |-> 10, cooldown_minutes |-> m, smile_ranges |-> r] :
        m \in {NULL, 0, -10, 30},
        r \in {JsonNull, JsonArr(<<>>), JsonArr(<<Range(0, 10, 20)>>)}}
NoBands == {JsNull, JsUndefined, JsArray(<<>>)}
Bands ==
    {Range(lo, hi, s) : lo \in 0..MaxEdge, hi \in {NULL} \cup 0..MaxEdge,
                        s \in {1, 2}}
BandLists ==
    UNION {[1..n -> {b \in Bands : b.max = NULL \/ b.max >= b.min}] :
               n \in 1..MaxBands}
(* the user records handed to the cooldown effect: none, and rows with  *)
(* attempts left, none left and fewer than none, with and without a last *)
(* attempt (at minute 20 of the clock, in milliseconds)                  *)
LastAttempt == 1200000
EffectUsers ==
    {NoUser} \cup
    {[attempts_left |-> a, total_smiles |-> 0, best_result |-> NULL,
      last_attempt_at |-> t] : a \in {-2, 0, 1}, t \in {NULL, LastAttempt}}

WorldUtil ==
    [offsets |-> {}, settings |-> {SettingsA}, conns |-> {},
     serial |-> TRUE, dynamic |-> TRUE, rows |-> 0,
     calls |-> {SmilesCall(d, r) : d \in -1..MaxDifference, r \in NoBands}
               \cup {SmilesCall(d, JsArray(l)) :
                         d \in -1..(MaxEdge + 1), l \in BandLists}
               \cup {DifferenceCall(fn, ms) :
                         fn \in {"calculateDifference", "handleButtonClick"},
                         ms \in 0..999}
               \cup {CooldownCall(dateNow + k * 60000 + d, dateNow) :
                         dateNow \in {60000, 90001}, k \in -1..MaxMinutes,
                         d \in {-1, 0, 1, 30000}}
               \cup {SettingsCall(fn, row) :
                         fn \in {"game.ts loadSettings", "loadSettings",
                                  "getSmileRanges", "getCooldownMinutes"},
                         row \in SettingsRows \cup {NoSettings}}
               \cup {EffectCall(user, row, LastAttempt + m * 60000 + d) :
                         user \in EffectUsers,
                         row \in {r \in SettingsRows : r.smile_ranges.isnull}
                                  \cup {NoSettings},
                         m \in {-10, 0, 30, 60}, d \in {-1, 0, 1}}]

(* the calls a world starts with *)
CallsOf(W) == IF "calls" \in DOMAIN W THEN W.calls ELSE {NoCall}

----------------------------------------------------------------------------
(* the players who have a tab open *)
PlayersOf(W) == {auth_uid(c) : c \in W.conns}

(* attempts_number when a player signed up: the current one for the      *)
(* players of the world, that of the initial game_settings row (10) for  *)
(* a player who stays away                                                *)
SignupAttempts(W, p) ==
    IF p \in PlayersOf(W) THEN game_settings.attempts_number
    ELSE DefaultAttemptsNumber

Init(W) ==
    /\ now = 0
    /\ game_settings \in W.settings
    /\ users = [p \in Players |-> NewUser(SignupAttempts(W, p))]
    /\ attempts = <<>>
    /\ inserted = 0
    /\ pc = [c \in Conns |-> "idle"]
    /\ loc = [c \in Conns |-> NoLocals]
    /\ res = [c \in Conns |-> NoResult]
    /\ store \in (IF W.dynamic THEN {NoSettings}
                  ELSE {NoSettings, Loaded(game_settings)})
    /\ rst = [p \in Players |-> "idle"]
    /\ hpc = "idle"
    /\ currentUser = NoUser
    /\ hookAttempts = <<>>
    /\ isSubmitting = FALSE
    /\ previousAttemptsLeft = NULL
    /\ cooldownEndTime = NULL
    /\ isClickDelayed = FALSE
    /\ clicked = NoClick
    /\ sess = [p \in Players |-> [aps |-> SignupAttempts(W, p), acc |-> <<>>,
                                locked |-> 0]]
    /\ util \in CallsOf(W)

Tick ==
    /\ now < MaxTime
    /\ now' = now + 1
    /\ UNCHANGED <<util, game, server, rpc, store, rst, hook, sess>>

ChangeSettings(W) ==
    /\ \E s \in W.settings : s # game_settings /\ game_settings' = s
    /\ UNCHANGED <<util, game, now, users, attempts, inserted, rpc, store, rst, hook, sess>>

(* store/game.ts loadSettings *)
LoadSettings ==
    /\ store' = Loaded(game_settings)
    /\ store' # store
    /\ cooldownEndTime' =
         IF store'.cooldown_minutes # store.cooldown_minutes
         THEN cooldownEnd(currentUser, store', now)
         ELSE cooldownEndTime
    /\ UNCHANGED <<util, game, now, server, rpc, rst, hpc, currentUser, hookAttempts,
                   isSubmitting, previousAttemptsLeft, sess>>

----------------------------------------------------------------------------
(* record_attempt *)

(* lines 197-215: now() and the SELECT of the user row.  On the hook's     *)
(* connection the call is made by handleAttemptSubmit (useGameSession.ts   *)
(* lines 100-105).                                                         *)
SelectRow(W, c) ==
    /\ pc[c] = "idle"
    /\ W.serial => ~Busy
    /\ inserted + Cardinality(InFlight) < W.rows
    /\ IF c = HookConn
       THEN /\ hpc = "idle"
            /\ currentUser # NoUser
            /\ hpc' = "rpc"
            /\ isSubmitting' = TRUE
            /\ previousAttemptsLeft' = currentUser.attempts_left
            /\ UNCHANGED <<currentUser, hookAttempts, cooldownEndTime>>
       ELSE UNCHANGED hook
    /\ \E d \in W.offsets :
        LET p == auth_uid(c)
            u == users[p]
            \* history: the calls in flight that read the same single remaining attempt
            rivals == {o \in InFlight \ {c} :
                        /\ auth_uid(o) = p
                        /\ u.attempts_left = 1
                        /\ loc[o].current_attempts_left = 1}
        IN  /\ loc' = [loc EXCEPT ![c] =
                        [difference_value |-> d,
                         current_time_check |-> now,
                         current_attempts_left |-> u.attempts_left,
                         current_last_attempt_at |-> u.last_attempt_at,
                         current_best_result |-> u.best_result]]
            /\ res' = [o \in Conns |->
                        IF o = c
                        THEN [outcome |-> "none", race |-> rivals # {},
                              \* history: the caller's copy of the row is current
                              sync |-> (c = HookConn => currentUser = u),
                              report |-> NoReport,
                              \* history: the call has reset the session
                              reset |-> FALSE]
                        ELSE IF o \in rivals THEN [res[o] EXCEPT !.race = TRUE]
                        ELSE res[o]]
    /\ pc' = [pc EXCEPT ![c] = "selected"]
    /\ UNCHANGED <<util, now, server, store, rst, sess>>

(* a call that no click on the button of the modelled Game has started *)
Select(W, c) ==
    /\ SelectRow(W, c)
    /\ UNCHANGED game

(* the call returns to recordAttempt (useSupabase.ts lines 49-88), which   *)
(* returns success to handleAttemptSubmit                                  *)
Returned(c) ==
    IF c = HookConn
    THEN /\ hpc' = "refresh"
         /\ UNCHANGED <<currentUser, hookAttempts, isSubmitting, previousAttemptsLeft,
                        cooldownEndTime>>
    ELSE UNCHANGED hook

(* RAISE EXCEPTION: the transaction is rolled back *)
Raise(c, message) ==
    /\ pc' = [pc EXCEPT ![c] = "idle"]
    /\ loc' = [loc EXCEPT ![c] = NoLocals]
    /\ res' = [res EXCEPT ![c].outcome = message,
                          ![c].report = recordAttemptCatch(
                              IF message = "Cooldown active" THEN CooldownMessage
                              ELSE NoAttemptsMessage)]
    /\ Returned(c)
    /\ UNCHANGED <<util, game, now, server, store, rst, sess>>

(* lines 217-268: cooldown check and reset, attempts check, INSERT, UPDATE, *)
(* RETURN true.  Nothing here reads the user row again: every value        *)
(* written comes from the variables filled by the SELECT.  The writes of   *)
(* the transaction become visible together, at its commit.                 *)
Complete(c) ==
    /\ pc[c] = "selected"
    /\ LET p == auth_uid(c)
           l == loc[c]
           cooldown_interval == EffectiveCooldown(game_settings.cooldown_minutes)
           attempts_to_reset == game_settings.attempts_number
           exhausted == Exhausted(l.current_attempts_left)
           passed == CooldownPassed(l.current_last_attempt_at, l.current_time_check,
                                    cooldown_interval)
           current_attempts_left ==
               IF exhausted THEN attempts_to_reset ELSE l.current_attempts_left
           current_best_result ==
               IF exhausted THEN NULL ELSE l.current_best_result
           new_best_result == NewBestResult(current_best_result, l.difference_value)
           smiles_for_best_result ==
               SmilesForBest(new_best_result, l.difference_value,
                             game_settings.smile_ranges)
           row == [user_id |-> p, difference |-> l.difference_value]
       IN  IF exhausted /\ ~passed
           THEN Raise(c, "Cooldown active")
           ELSE IF current_attempts_left <= 0
           THEN Raise(c, "No attempts left")
           ELSE /\ attempts' = Append(attempts, row)
                /\ inserted' = inserted + 1
                /\ users' = [users EXCEPT ![p] =
                               [attempts_left |-> AttemptsLeftAfter(current_attempts_left,
                                                                   users[p].attempts_left),
                                last_attempt_at |-> l.current_time_check,
                                total_smiles |-> smiles_for_best_result,
                                best_result |-> new_best_result]]
                /\ sess' = [sess EXCEPT ![p] =
                               [aps |-> IF exhausted THEN attempts_to_reset ELSE @.aps,
                                acc |-> IF exhausted THEN <<l.difference_value>>
                                        ELSE Append(@.acc, l.difference_value),
                                locked |-> IF new_best_result = l.current_best_result
                                              /\ ~exhausted
                                           THEN @.locked
                                           ELSE smiles_for_best_result]]
                /\ pc' = [pc EXCEPT ![c] = "idle"]
                /\ loc' = [loc EXCEPT ![c] = NoLocals]
                /\ res' = [res EXCEPT ![c].outcome = "accepted",
                                      ![c].reset = exhausted]
                /\ Returned(c)
                /\ UNCHANGED <<util, game, now, game_settings, store, rst>>

(* a variant in which the writes made before the failing statement stay *)
AfterFailureKeepsWrites(committed, written) == written

(* a statement of the function fails: the exception leaves the function, *)
(* which has no EXCEPTION block, and the transaction is rolled back      *)
AfterFailure(committed, written) == committed

(* lines 228-264 with a failing write: the reset UPDATE, the INSERT or   *)
(* the final UPDATE raises a database error                               *)
WriteFails(c) ==
    /\ pc[c] = "selected"
    /\ LET p == auth_uid(c)
           l == loc[c]
           exhausted == Exhausted(l.current_attempts_left)
           passed == CooldownPassed(l.current_last_attempt_at, l.current_time_check,
                                    EffectiveCooldown(game_settings.cooldown_minutes))
           current_attempts_left ==
               IF exhausted THEN game_settings.attempts_number
               ELSE l.current_attempts_left
           row == [user_id |-> p, difference |-> l.difference_value]
       IN  /\ exhausted => passed
           /\ current_attempts_left > 0
           /\ \E failing \in {"reset", "insert", "update"} :
                /\ failing = "reset" => exhausted
                /\ users' = AfterFailure(users,
                               IF exhausted
                               THEN [users EXCEPT ![p] =
                                       [attempts_left |-> game_settings.attempts_number,
                                        total_smiles |-> 0, best_result |-> NULL,
                                        last_attempt_at |-> NULL]]
                               ELSE users)
                /\ attempts' = AfterFailure(attempts,
                                  IF failing = "update" THEN Append(attempts, row)
                                  ELSE attempts)
    /\ pc' = [pc EXCEPT ![c] = "idle"]
    /\ loc' = [loc EXCEPT ![c] = NoLocals]
    /\ \E errorMessage \in DatabaseErrors :
         res' = [res EXCEPT ![c].outcome = "Database error",
                            ![c].report = recordAttemptCatch(errorMessage)]
    /\ Returned(c)
    /\ UNCHANGED <<util, game, now, game_settings, inserted, store, rst, sess>>

----------------------------------------------------------------------------
(* useSupabase.ts resetUserAttempts: two requests, an UPDATE of the user   *)
(* row and a DELETE of the player's attempt rows                           *)

(* a variant of lines 170-179 that leaves best_result out of the update *)
ResetRowKeepsBest(row, attempts_number) ==
    [row EXCEPT !.attempts_left = attempts_number,
                !.total_smiles = 0, !.last_attempt_at = NULL]

(* lines 170-179: the columns the UPDATE sets *)
ResetRow(row, attempts_number) ==
    [row EXCEPT !.attempts_left = attempts_number, !.best_result = NULL,
                !.total_smiles = 0, !.last_attempt_at = NULL]

ResetUpdate(W, p) ==
    /\ rst[p] = "idle"
    /\ W.serial => ~Busy
    /\ users' = [users EXCEPT ![p] = ResetRow(@, AttemptsLimit(store))]
    /\ sess' = [sess EXCEPT ![p] = [aps |-> AttemptsLimit(store), acc |-> <<>>,
                                     locked |-> 0]]
    /\ rst' = [rst EXCEPT ![p] = "updated"]
    /\ UNCHANGED <<util, game, now, game_settings, attempts, inserted, rpc, store, hook>>

(* lines 170-180: the UPDATE request fails (updateError), nothing is *)
(* written, and the error is thrown into the catch block             *)
ResetUpdateFails(W, p) ==
    /\ rst[p] = "idle"
    /\ W.serial => ~Busy
    /\ users' = AfterFailure(users,
                             [users EXCEPT ![p] = ResetRow(@, AttemptsLimit(store))])
    /\ rst' = [rst EXCEPT ![p] = "caught"]
    /\ UNCHANGED <<util, game, now, game_settings, attempts, inserted, rpc, store, hook,
                   sess>>

(* lines 196 and 199: the value resetUserAttempts returns when it leaves *)
(* from the position                                                     *)
resetUserAttemptsReturn(position) == position # "caught"

(* lines 197-202: setError, return false *)
ResetCaught(p) ==
    /\ rst[p] = "caught"
    /\ rst' = [rst EXCEPT ![p] = "idle"]
    /\ UNCHANGED <<util, game, now, server, rpc, store, hook, sess>>

(* a variant of lines 183-186 without the filter on user_id *)
RowsAfterDeleteAll(rows, p) == <<>>

(* lines 183-186: delete().eq("user_id", userId) *)
RowsAfterDelete(rows, p) == SelectSeq(rows, LAMBDA r : r.user_id # p)

ResetDelete(p) ==
    /\ rst[p] = "updated"
    /\ \/ attempts' = RowsAfterDelete(attempts, p)
       \/ attempts' = attempts      \* deleteError: warned about, not fatal
    /\ rst' = [rst EXCEPT ![p] = "idle"]
    /\ UNCHANGED <<util, game, now, game_settings, users, inserted, rpc, store, hook, sess>>

----------------------------------------------------------------------------
(* useGameSession.ts *)

(* loadInitialData, lines 35-45: getUser, setCurrentUser *)
LoadUser(W) ==
    /\ hpc = "idle"
    /\ W.serial => ~Busy
    /\ currentUser' = users[auth_uid(HookConn)]
    /\ cooldownEndTime' = cooldownEnd(currentUser', store, now)
    /\ hpc' = "load"
    /\ UNCHANGED <<util, game, now, server, rpc, store, rst, hookAttempts, isSubmitting,
                   previousAttemptsLeft, sess>>

(* a variant of lines 47-62 that always fetches attemptsLimit rows *)
InitialViewWholeLimit(p, userData, attemptsLimit) ==
    getUserAttempts(p, attemptsLimit)

(* loadInitialData, lines 47-62: the attempts shown for the user row read *)
InitialView(p, userData, attemptsLimit) ==
    LET attemptsMadeThisSession == attemptsLimit - userData.attempts_left
    IN  IF userData.attempts_left > 0
        THEN IF attemptsMadeThisSession > 0
             THEN getUserAttempts(p, attemptsMadeThisSession)
             ELSE <<>>
        ELSE getUserAttempts(p, attemptsLimit)

(* loadInitialData, lines 47-62 *)
LoadAttempts ==
    /\ hpc = "load"
    /\ hookAttempts' = InitialView(auth_uid(HookConn), currentUser,
                                   AttemptsLimit(store))
    /\ hpc' = "idle"
    /\ UNCHANGED <<util, game, now, server, rpc, store, rst, currentUser, isSubmitting,
                   previousAttemptsLeft, cooldownEndTime, sess>>

(* a variant of line 110 that refetches the attempts after every call *)
refetchesAttemptsAlways(success) == TRUE

(* handleAttemptSubmit, line 110: if (success), the branch that goes on *)
(* to getUserAttempts                                                    *)
refetchesAttempts(success) == success

(* handleAttemptSubmit, line 167: return success, the value recordAttempt *)
(* has returned to the call that is over                                  *)
handleAttemptSubmitReturn == res[HookConn].report.success

(* handleAttemptSubmit, lines 110-114 and 151-156, 163-165: getUser *)
RefreshUser ==
    /\ hpc = "refresh"
    /\ currentUser' = users[auth_uid(HookConn)]
    /\ cooldownEndTime' = cooldownEnd(currentUser', store, now)
    /\ IF refetchesAttempts(res[HookConn].report.success)
       THEN hpc' = "fetch" /\ UNCHANGED isSubmitting
       ELSE hpc' = "idle" /\ isSubmitting' = FALSE
    /\ UNCHANGED <<util, game, now, server, rpc, store, rst, hookAttempts,
                   previousAttemptsLeft, sess>>

(* a lost variant of lines 123-135: the fetched rows shown as they are *)
SessionViewUnsliced(latestUserAttempts, attemptsLimit, previousLeft, updatedLeft) ==
    latestUserAttempts

(* handleAttemptSubmit, lines 123-135: the rows of the current session *)
SessionView(latestUserAttempts, attemptsLimit, previousLeft, updatedLeft) ==
    LET isNewSessionStart == previousLeft <= 0 /\ updatedLeft > 0
        attemptsMadeThisSession == attemptsLimit - updatedLeft
    IN  IF isNewSessionStart
        THEN (IF Len(latestUserAttempts) > 0
              THEN <<latestUserAttempts[1]>> ELSE <<>>)
        ELSE Slice0(latestUserAttempts, attemptsMadeThisSession)

(* handleAttemptSubmit, lines 116-135, 163-165 *)
FetchAttempts ==
    /\ hpc = "fetch"
    /\ LET attemptsLimit == AttemptsLimit(store)
           latestUserAttempts == getUserAttempts(auth_uid(HookConn), attemptsLimit)
       IN  hookAttempts' = SessionView(latestUserAttempts, attemptsLimit,
                                       previousAttemptsLeft,
                                       currentUser.attempts_left)
    /\ hpc' = "idle"
    /\ isSubmitting' = FALSE
    /\ UNCHANGED <<util, game, now, server, rpc, store, rst, currentUser,
                   previousAttemptsLeft, cooldownEndTime, sess>>

(* a variant without the finally block: the indicator is cleared at the *)
(* end of the try block only                                             *)
submittingWithoutFinally(submitting) == submitting

(* handleAttemptSubmit, lines 163-165: finally setIsSubmitting(false),  *)
(* after a refresh that has failed                                       *)
submittingAfterFailure(submitting) == FALSE

(* handleAttemptSubmit, lines 112-113, 148-150 and 154-155: getUser has   *)
(* caught an error and returned null (useSupabase.ts lines 151-153), or   *)
(* has thrown into the catch block of lines 157-162; the finally block    *)
(* follows                                                                 *)
RefreshUserFails ==
    /\ hpc = "refresh"
    /\ hpc' = "idle"
    /\ isSubmitting' = submittingAfterFailure(isSubmitting)
    /\ UNCHANGED <<util, game, now, server, rpc, store, rst, currentUser, hookAttempts,
                   previousAttemptsLeft, cooldownEndTime, sess>>

(* handleAttemptSubmit, lines 117-135: getUserAttempts has caught an      *)
(* error and returned [] (useSupabase.ts lines 117-119), or has thrown    *)
(* into the catch block of lines 157-162; the finally block follows       *)
FetchAttemptsFails ==
    /\ hpc = "fetch"
    /\ \/ hookAttempts' = SessionView(<<>>, AttemptsLimit(store),
                                      previousAttemptsLeft,
                                      currentUser.attempts_left)
       \/ hookAttempts' = hookAttempts
    /\ hpc' = "idle"
    /\ isSubmitting' = submittingAfterFailure(isSubmitting)
    /\ UNCHANGED <<util, game, now, server, rpc, store, rst, currentUser,
                   previousAttemptsLeft, cooldownEndTime, sess>>

(* Game.tsx *)

(* a variant of line 276 that does not look at the clock *)
cooldownRunningWhenSet(endTime, dateNow) ==
    endTime # NULL

(* handleButtonClick, line 276: cooldownEndTime && Date.now() < cooldownEndTime *)
cooldownRunning(endTime, dateNow) ==
    endTime # NULL /\ dateNow < endTime

(* a variant of line 292 that looks at the click delay only *)
clickRejectedByDelay(delayed, submitting) ==
    delayed

(* handleButtonClick, line 292: isClickDelayed || isSubmitting *)
clickRejected(delayed, submitting) ==
    delayed \/ submitting

(* handleAttemptSubmit has been called and has not returned *)
SubmitInFlight == hpc \in {"rpc", "refresh", "fetch"}

(* handleButtonClick, lines 271-325, on the button that Game renders once *)
(* the initial load is over (lines 367-376).  A click that passes both    *)
(* checks calls handleAttemptSubmit; should a call be in flight already,  *)
(* the history records the overlap and the second call is not followed.   *)
Click(W) ==
    /\ currentUser # NoUser
    /\ hpc # "load"
    /\ LET exhausted == currentUser.attempts_left <= 0
           cooling == exhausted /\ cooldownRunning(cooldownEndTime, now)
           seen == [NoClick EXCEPT !.exhausted = exhausted,
                                   !.cooling = exhausted /\ cooldownEndTime # NULL
                                               /\ now < cooldownEndTime,
                                   !.delayed = isClickDelayed,
                                   !.submitting = isSubmitting,
                                   !.previous = clicked.outcome]
       IN  IF cooling
           THEN /\ clicked' = [seen EXCEPT
                      !.outcome = "cooldown",
                      !.toast = "Next game will be available "
                                \o formatRemainingCooldown(cooldownEndTime * 60000,
                                                           now * 60000)
                                \o "."]
                /\ UNCHANGED <<util, now, server, rpc, store, rst, hook, sess,
                               isClickDelayed>>
           ELSE IF clickRejected(isClickDelayed, isSubmitting)
           THEN /\ clicked' = [seen EXCEPT
                      !.outcome = "wait",
                      !.toast = "Please wait before the next attempt."]
                /\ UNCHANGED <<util, now, server, rpc, store, rst, hook, sess,
                               isClickDelayed>>
           ELSE /\ isClickDelayed' = TRUE
                /\ clicked' = [seen EXCEPT !.outcome = "submitted",
                                           !.overlap = SubmitInFlight]
                /\ IF SubmitInFlight
                   THEN UNCHANGED <<util, now, server, rpc, store, rst, hook, sess>>
                   ELSE SelectRow(W, HookConn)

(* lines 301-303: the timer of the click delay fires *)
DelayElapsed ==
    /\ isClickDelayed
    /\ isClickDelayed' = FALSE
    /\ UNCHANGED <<util, now, server, rpc, store, rst, hook, sess, clicked>>

(* the pure functions of the browser, applied to the arguments of the call *)
CalculateSmiles ==
    /\ util.fn = "calculateSmiles" /\ ~util.returned
    /\ util' = [util EXCEPT !.returned = TRUE,
                            !.smiles = calculateSmiles(util.difference, util.ranges)]
    /\ UNCHANGED <<now, server, rpc, store, rst, hook, sess, game>>

CalculateDifference ==
    /\ util.fn = "calculateDifference" /\ ~util.returned
    /\ util' = [util EXCEPT !.returned = TRUE,
                            !.difference = calculateDifference(util.ms)]
    /\ UNCHANGED <<now, server, rpc, store, rst, hook, sess, game>>

ButtonClickDiff ==
    /\ util.fn = "handleButtonClick" /\ ~util.returned
    /\ util' = [util EXCEPT !.returned = TRUE, !.difference = diff(util.ms)]
    /\ UNCHANGED <<now, server, rpc, store, rst, hook, sess, game>>

FormatRemainingCooldown ==
    /\ util.fn = "formatRemainingCooldown" /\ ~util.returned
    /\ util' = [util EXCEPT !.returned = TRUE,
                            !.text = formatRemainingCooldown(util.cooldownEndTimestamp,
                                                             util.dateNow)]
    /\ UNCHANGED <<now, server, rpc, store, rst, hook, sess, game>>

(* loadSettings of store/game.ts, the row read being util.settings *)
StoreLoadSettings ==
    /\ util.fn = "game.ts loadSettings" /\ ~util.returned
    /\ util' = [util EXCEPT !.returned = TRUE,
                            !.loaded = loadedSettingsOfArray(util.settings)]
    /\ UNCHANGED <<now, server, rpc, store, rst, hook, sess, game>>

(* loadSettings of the later copy *)
StoreLoadSettingsLater ==
    /\ util.fn = "loadSettings" /\ ~util.returned
    /\ util' = [util EXCEPT !.returned = TRUE,
                            !.loaded = loadedSettings(util.settings)]
    /\ UNCHANGED <<now, server, rpc, store, rst, hook, sess, game>>

GetSmileRanges ==
    /\ util.fn = "getSmileRanges" /\ ~util.returned
    /\ util' = [util EXCEPT !.returned = TRUE,
                            !.bands = getSmileRanges(util.settings)]
    /\ UNCHANGED <<now, server, rpc, store, rst, hook, sess, game>>

GetCooldownMinutes ==
    /\ util.fn = "getCooldownMinutes" /\ ~util.returned
    /\ util' = [util EXCEPT !.returned = TRUE,
                            !.minutes = getCooldownMinutes(util.settings)]
    /\ UNCHANGED <<now, server, rpc, store, rst, hook, sess, game>>

----------------------------------------------------------------------------
EnvNext(W) ==
    \/ ChangeSettings(W)
    \/ LoadSettings

ServerNext(W) ==
    \/ Tick
    \/ \E c \in W.conns : Select(W, c)
    \/ \E c \in W.conns : Complete(c)
    \/ \E p \in PlayersOf(W) : ResetUpdate(W, p)
    \/ \E p \in PlayersOf(W) : ResetDelete(p)

HookNext(W) ==
    \/ LoadUser(W)
    \/ LoadAttempts
    \/ RefreshUser
    \/ FetchAttempts

HookFaultNext ==
    \/ RefreshUserFails
    \/ FetchAttemptsFails

(* handleAttemptSubmit and all that can happen to it *)
SubmitNext(W) ==
    \/ Tick
    \/ \E c \in W.conns : Select(W, c)
    \/ \E c \in W.conns : Complete(c)
    \/ \E c \in W.conns : WriteFails(c)
    \/ HookNext(W)
    \/ HookFaultNext
    \/ EnvNext(W)

FaultNext(W) ==
    \/ \E c \in W.conns : WriteFails(c)
    \/ \E p \in PlayersOf(W) : ResetUpdateFails(W, p)
    \/ \E p \in PlayersOf(W) : ResetCaught(p)

GameNext(W) ==
    \/ Tick
    \/ Click(W)
    \/ DelayElapsed
    \/ \E c \in W.conns : Complete(c)
    \/ HookNext(W)

(* useGameSession.ts lines 77-95, in milliseconds *)
CooldownEffect ==
    /\ util.fn = "cooldown effect" /\ ~util.returned
    /\ util' = [util EXCEPT !.returned = TRUE,
                            !.endTime = cooldownEndAt(util.user, util.settings,
                                                      util.dateNow, 60 * 1000)]
    /\ UNCHANGED <<now, server, rpc, store, rst, hook, sess, game>>

UtilNext ==
    \/ CooldownEffect
    \/ CalculateSmiles
    \/ CalculateDifference
    \/ ButtonClickDiff
    \/ FormatRemainingCooldown
    \/ StoreLoadSettings
    \/ StoreLoadSettingsLater
    \/ GetSmileRanges
    \/ GetCooldownMinutes

(* the server, its operations run one at a time *)
Spec == Init(World) /\ [][ServerNext(World) \/ EnvNext(World)]_vars

(* the server, concurrent calls interleaving statement by statement *)
SpecConc == Init(WorldConc) /\ [][ServerNext(WorldConc)]_vars

(* concurrent calls racing for the cooldown reset *)
SpecRace == Init(WorldRace) /\ [][ServerNext(WorldRace)]_vars

(* the serial server, with writes that may fail *)
SpecFault ==
    Init(WorldFault) /\ [][ServerNext(WorldFault) \/ FaultNext(WorldFault)
                            \/ EnvNext(WorldFault)]_vars

(* the hook over a server whose writes and reads may fail *)
SpecSubmit == Init(WorldSubmit) /\ [][SubmitNext(WorldSubmit)]_vars

(* the same, every request of the hook answered in the end: the call of  *)
(* record_attempt returns or fails, and so do getUser and getUserAttempts *)
SpecSubmitLive ==
    /\ SpecSubmit
    /\ WF_vars(\E c \in WorldSubmit.conns : Complete(c) \/ WriteFails(c))
    /\ WF_vars(RefreshUser \/ RefreshUserFails)
    /\ WF_vars(FetchAttempts \/ FetchAttemptsFails)

(* the server while time passes, the player keeps submitting and every  *)
(* call of record_attempt returns                                       *)
SpecLive ==
    /\ Init(WorldLive) /\ [][ServerNext(WorldLive)]_vars
    /\ WF_vars(Tick)
    /\ WF_vars(\E c \in WorldLive.conns : Select(WorldLive, c))
    /\ \A c \in WorldLive.conns : WF_vars(Complete(c))

(* two players at once *)
SpecTwo == Init(WorldTwo) /\ [][ServerNext(WorldTwo)]_vars

(* the worked example, on the serial server *)
SpecExample == Init(WorldExample) /\ [][ServerNext(WorldExample)]_vars

(* the tie example, on the serial server with changing settings *)
SpecTie == Init(WorldTie) /\ [][ServerNext(WorldTie) \/ EnvNext(WorldTie)]_vars

(* the browser hook and the server, operations one at a time *)
SpecHook == Init(WorldHook) /\ [][ServerNext(WorldHook) \/ HookNext(WorldHook)]_vars

(* the Game component over the hook and the server *)
SpecGame == Init(WorldGame) /\ [][GameNext(WorldGame)]_vars

(* the pure functions of the browser, each call on its own *)
SpecUtil == Init(WorldUtil) /\ [][UtilNext]_vars

----------------------------------------------------------------------------
(* Steps of record_attempt, as seen from outside the transaction *)

Completes(c) == pc[c] = "selected" /\ pc'[c] = "idle"
Accepts(c) == Completes(c) /\ res'[c].outcome = "accepted"

(* two calls that both read the same single remaining attempt, both over *)
RacedPair(a, b) ==
    /\ a # b
    /\ res[a].race /\ res[b].race
    /\ pc[a] = "idle" /\ pc[b] = "idle"
    /\ res[a].outcome # "none" /\ res[b].outcome # "none"

----------------------------------------------------------------------------
(* C1: of two concurrent record_attempt calls of one player that both    *)
(* see exactly one attempt left, exactly one is accepted and the other   *)
(* is rejected with 'No attempts left'.                                   *)
C1_ExactlyOneOfTwo ==
    \A a \in Conns, b \in Conns :
        RacedPair(a, b) =>
            \/ res[a].outcome = "accepted" /\ res[b].outcome = "No attempts left"
            \/ res[b].outcome = "accepted" /\ res[a].outcome = "No attempts left"

(* C2: attempts_left never goes below zero, whatever the interleaving of *)
(* concurrent calls and resets.                                           *)
C2_NeverNegative ==
    \A p \in Players : users[p].attempts_left >= 0

(* two calls raced for the last attempt, both were accepted, and the     *)
(* counter stands at zero                                                 *)
C2_Witness ==
    \E a \in Conns, b \in Conns :
        /\ RacedPair(a, b)
        /\ res[a].outcome = "accepted" /\ res[b].outcome = "accepted"
        /\ users[auth_uid(a)].attempts_left = 0

(* C3: after N accepted calls made one after another in a session that  *)
(* gives attempts_per_session attempts, attempts_left is                 *)
(* attempts_per_session - N, and the hook's current-session list, built  *)
(* by handleAttemptSubmit from settings and a user row that are current, *)
(* holds exactly the N attempts of the session, newest first.            *)
SessionRows(p) ==
    [i \in 1..Len(sess[p].acc) |->
        [user_id |-> p, difference |-> sess[p].acc[Len(sess[p].acc) + 1 - i]]]

C3_ServerCount ==
    \A p \in Players :
        users[p].attempts_left = sess[p].aps - Len(sess[p].acc)

C3_HookList ==
    LET p == auth_uid(HookConn) IN
    (/\ hpc = "fetch" /\ hpc' = "idle"
     /\ AttemptsLimit(store) = sess[p].aps
     /\ res[HookConn].sync)
    => hookAttempts' = SessionRows(p)

C4_LedgerMatchesCounter ==
    \A p \in Players :
        LET recorded == Len(sess[p].acc)
        IN  IF users[p].attempts_left = 0
            THEN recorded = sess[p].aps
            ELSE recorded = sess[p].aps - users[p].attempts_left

(* C5: a call made with no attempts left exactly cooldown_minutes after  *)
(* the last attempt is accepted (and so resets the session).              *)
C5_BoundaryAccepts ==
    [][\A c \in Conns :
        LET u == users[auth_uid(c)] IN
        (/\ Completes(c)
         /\ u.attempts_left = 0
         /\ u.last_attempt_at # NULL
         /\ loc[c].current_time_check - u.last_attempt_at
                = game_settings.cooldown_minutes)
        => res'[c].outcome = "accepted"]_vars

(* C6: a call made with no attempts left less than cooldown_minutes      *)
(* after the last attempt is rejected with 'Cooldown active' and leaves  *)
(* the user row and the attempts table as they were.                      *)
C6_CooldownRejects ==
    [][\A c \in Conns :
        LET u == users[auth_uid(c)] IN
        (/\ Completes(c)
         /\ u.attempts_left = 0
         /\ u.last_attempt_at # NULL
         /\ loc[c].current_time_check - u.last_attempt_at
                < EffectiveCooldown(game_settings.cooldown_minutes))
        => /\ res'[c].outcome = "Cooldown active"
           /\ users' = users
           /\ attempts' = attempts]_vars

(* a call has been rejected during the cooldown of a used-up session *)
C6_Witness ==
    \E c \in Conns :
        /\ pc[c] = "idle" /\ res[c].outcome = "Cooldown active"
        /\ users[auth_uid(c)].attempts_left = 0
        /\ Len(sess[auth_uid(c)].acc) = sess[auth_uid(c)].aps
        /\ Len(attempts) = Len(sess[auth_uid(c)].acc)

(* C7: with three attempts per session, sixty minutes of cooldown and    *)
(* the default bands, the offsets 100, 0, 50 leave attempts_left = 0,    *)
(* best_result = 0 and total_smiles = 33, and a fourth call made then is *)
(* rejected with 'Cooldown active'.                                       *)
C7_Played(p) ==
    sess[p].acc = ExampleOffsets /\ sess[p].aps = Len(ExampleOffsets)

C7_AfterThird ==
    \A p \in Players :
        C7_Played(p) =>
            /\ users[p].attempts_left = 0
            /\ users[p].best_result = 0
            /\ users[p].total_smiles = 33

C7_Fourth ==
    \A c \in Conns :
        (Completes(c) /\ C7_Played(auth_uid(c)))
        => res'[c].outcome = "Cooldown active" /\ users' = users

C7_Example == []C7_AfterThird /\ [][C7_Fourth]_vars

(* the three offsets were played and a fourth call has been rejected *)
C7_Witness ==
    \E c \in Conns :
        /\ C7_Played(auth_uid(c))
        /\ pc[c] = "idle" /\ res[c].outcome = "Cooldown active"
        /\ users[auth_uid(c)].total_smiles = 33

(* C8: with calls made one at a time, best_result is the least offset    *)
(* among the attempts accepted since the last reset (none: NULL).         *)
RECURSIVE LeastOf(_)
LeastOf(offsets) ==
    IF offsets = <<>> THEN NULL
    ELSE IF Len(offsets) = 1 THEN offsets[1]
    ELSE Min(offsets[1], LeastOf(Tail(offsets)))

C8_BestIsMinimum ==
    \A p \in Players : users[p].best_result = LeastOf(sess[p].acc)

(* the latest accepted attempt was worse than an earlier one *)
C8_Witness ==
    \E p \in Players :
        /\ Len(sess[p].acc) >= 2
        /\ sess[p].acc[Len(sess[p].acc)] > users[p].best_result
        /\ users[p].best_result = LeastOf(sess[p].acc)

C9_Tie ==
    \A c \in Conns :
        LET p == auth_uid(c) IN
        (/\ Accepts(c)
         /\ users[p].attempts_left > 0
         /\ loc[c].difference_value = users[p].best_result)
        => /\ users'[p].best_result = users[p].best_result
           /\ users'[p].total_smiles =
                 calculate_smiles_from_ranges(users[p].best_result,
                                              game_settings.smile_ranges)

C9_Played ==
    \A c \in Conns :
        LET p == auth_uid(c) IN
        (Accepts(c) /\ sess'[p].acc = TieOffsets)
        => /\ users'[p].best_result = 5
           /\ game_settings.smile_ranges = JsonNull
                 => users'[p].total_smiles = 15

C10_Step ==
    /\ game_settings' # game_settings => users' = users
    /\ \A c \in Conns :
         LET p == auth_uid(c) IN
         Accepts(c) =>
            users'[p].total_smiles =
                calculate_smiles_from_ranges(users'[p].best_result,
                                             game_settings.smile_ranges)

C11_NullIffNoneAccepted ==
    \A p \in Players :
        (users[p].best_result = NULL) <=> (sess[p].acc = <<>>)

(* a manual reset has cleared best_result while the rows of the earlier  *)
(* session are still in the table                                         *)
C11_Witness ==
    \E p \in Players :
        /\ users[p].best_result = NULL
        /\ sess[p].acc = <<>>
        /\ Len(RowsOf(p)) > 0

(* C12: the cooldown reset and the acceptance of the attempt that        *)
(* triggered it become visible together: the user row goes in one step   *)
(* from the used-up session to attempts_number - 1 with the attempt      *)
(* recorded, and no step of a call shows the row restored but not yet    *)
(* decremented.                                                           *)
C12_ResetStep ==
    \A c \in Conns :
        LET p == auth_uid(c)
            l == loc[c]
        IN  (Completes(c) /\ l.current_attempts_left <= 0) =>
               \/ /\ res'[c].outcome = "Cooldown active"
                  /\ users' = users /\ attempts' = attempts
               \/ /\ res'[c].outcome = "accepted"
                  /\ users'[p].attempts_left = game_settings.attempts_number - 1
                  /\ users'[p].last_attempt_at = l.current_time_check
                  /\ users'[p].best_result = l.difference_value
                  /\ attempts' = Append(attempts, [user_id |-> p,
                                                   difference |-> l.difference_value])

C12_OnlyWholeCalls ==
    (users' # users \/ attempts' # attempts) =>
        \/ \E c \in Conns : Accepts(c)
        \/ \E p \in Players : rst'[p] # rst[p]

C12_ResetAtomic == [][C12_ResetStep /\ C12_OnlyWholeCalls]_vars

(* a call has reset the session and been accepted while another call,    *)
(* which had read the used-up row, is still in progress                   *)
C12_Witness ==
    \E c \in Conns, o \in Conns :
        /\ c # o /\ auth_uid(c) = auth_uid(o)
        /\ pc[c] = "idle" /\ res[c].outcome = "accepted"
        /\ pc[o] = "selected" /\ loc[o].current_attempts_left = 0
        /\ Len(attempts) >= 2
        /\ sess[auth_uid(c)].acc = <<attempts[Len(attempts)].difference>>
        /\ users[auth_uid(c)].attempts_left = game_settings.attempts_number - 1

(* C13: a call of which a write fails (the reset UPDATE, the INSERT or   *)
(* the final UPDATE) fails as a whole and leaves the user rows and the   *)
(* attempts table as they were; a call changes them only by recording    *)
(* the attempt and decrementing the counter together.                     *)
C13_Step ==
    \A c \in Conns :
        LET p == auth_uid(c)
            before == IF users[p].attempts_left <= 0
                      THEN game_settings.attempts_number
                      ELSE users[p].attempts_left
        IN  Completes(c) =>
              IF res'[c].outcome = "accepted"
              THEN /\ attempts' = Append(attempts,
                          [user_id |-> p, difference |-> loc[c].difference_value])
                   /\ users'[p].attempts_left = before - 1
              ELSE users' = users /\ attempts' = attempts

C13_AllOrNothing == [][C13_Step]_vars

(* a call that would have reset the used-up session has failed with a    *)
(* database error, and the session is still used up                       *)
C13_Witness ==
    \E c \in Conns :
        LET u == users[auth_uid(c)] IN
        /\ pc[c] = "idle" /\ res[c].outcome = "Database error"
        /\ u.attempts_left = 0
        /\ u.last_attempt_at # NULL
        /\ CooldownPassed(u.last_attempt_at, now,
                          EffectiveCooldown(game_settings.cooldown_minutes))
        /\ Len(attempts) = Len(sess[auth_uid(c)].acc)
        /\ Len(attempts) > 0

Rejected(c) ==
    pc[c] = "idle" /\ res[c].outcome \notin {"none", "accepted"}

C14_WitnessCooldown ==
    \E a \in Conns, b \in Conns :
        /\ Rejected(a) /\ res[a].outcome = "Cooldown active"
        /\ Rejected(b) /\ res[b].outcome = "Database error"

(* C15: when resetUserAttempts has reported success, attempts_left is    *)
(* attempts_number of the client's settings (10 without settings),       *)
(* best_result and last_attempt_at are NULL, total_smiles is 0 and the   *)
(* view loadInitialData derives is empty, whatever the row was before    *)
(* and also when the old attempt rows were not deleted.                   *)
C15_Step ==
    \A p \in Players :
        (rst[p] = "updated" /\ rst'[p] = "idle") =>
            /\ users'[p].attempts_left = AttemptsLimit(store)
            /\ store.attempts_number = NULL =>
                    users'[p].attempts_left = DefaultAttemptsNumber
            /\ users'[p].best_result = NULL
            /\ users'[p].last_attempt_at = NULL
            /\ users'[p].total_smiles = 0
            /\ InitialView(p, users[p], AttemptsLimit(store))' = <<>>

C15_ResetClears == [][C15_Step]_vars

(* after a reset of a used-up session whose rows were not deleted, the   *)
(* hook has loaded the row and shows no attempts                          *)
C15_Witness ==
    LET p == auth_uid(HookConn) IN
    /\ rst[p] = "idle" /\ hpc = "idle"
    /\ Len(RowsOf(p)) >= 2
    /\ sess[p].acc = <<>>
    /\ users[p].attempts_left = AttemptsLimit(store)
    /\ users[p].best_result = NULL
    /\ currentUser = users[p]
    /\ hookAttempts = <<>>

(* C16: with attempts, cooldown resets and manual resets made one after  *)
(* another and a client that holds the attempts_number of the session,   *)
(* the view loadInitialData derives from the user row (the latest        *)
(* attempts_number - attempts_left rows, or the latest attempts_number   *)
(* rows when attempts_left is 0) is exactly the attempts accepted since  *)
(* the last reset, newest first.                                          *)
C16_Derived ==
    \A p \in Players :
        AttemptsLimit(store) = sess[p].aps =>
            InitialView(p, users[p], AttemptsLimit(store)) = SessionRows(p)

C16_Loaded ==
    LET p == auth_uid(HookConn) IN
    (hpc = "load" /\ hpc' = "idle" /\ AttemptsLimit(store) = sess[p].aps)
        => hookAttempts' = SessionRows(p)

ActsFor(p) ==
    \/ \E c \in Conns : auth_uid(c) = p /\ pc'[c] # pc[c]
    \/ rst'[p] # rst[p]

C17_Step ==
    \A p \in Players :
        ActsFor(p) =>
            \A q \in Players \ {p} :
                /\ users'[q] = users[q]
                /\ RowsOf(q)' = RowsOf(q)

C17_Independent == [][C17_Step]_vars

(* both players have played; the first has then reset and deleted their  *)
(* rows while the second's row and attempts stand                         *)
C17_Witness ==
    /\ RowsOf("p1") = <<>> /\ sess["p1"].acc = <<>>
    /\ users["p1"].last_attempt_at = NULL
    /\ inserted >= 2
    /\ RowsOf("p2") # <<>>
    /\ users["p2"].best_result # NULL
    /\ Len(RowsOf("p2")) = Len(sess["p2"].acc)

----------------------------------------------------------------------------
(* The pure functions of the browser *)

SmilesReturned == util.fn = "calculateSmiles" /\ util.returned
DifferenceReturned ==
    util.fn \in {"calculateDifference", "handleButtonClick"} /\ util.returned

(* the reward of the default bands [0,0] -> 33, [1,10] -> 15,            *)
(* [11,50] -> 10, [51,100] -> 5, [101, infinity) -> 3                     *)
DefaultReward(offset) ==
    IF offset = 0 THEN 33
    ELSE IF offset <= 10 THEN 15
    ELSE IF offset <= 50 THEN 10
    ELSE IF offset <= 100 THEN 5
    ELSE 3

(* C18: when the band list is null, undefined or empty, calculateSmiles   *)
(* uses the default bands: for every offset >= 0 the result is the        *)
(* default band's reward; offset 0 gives 33 and offset 150 gives 3.       *)
C18_DefaultBands ==
    (/\ SmilesReturned
     /\ util.ranges \in NoBands
     /\ util.difference >= 0)
    => /\ util.smiles = DefaultReward(util.difference)
       /\ (util.difference = 0 => util.smiles = 33)
       /\ (util.difference = 150 => util.smiles = 3)

C18_Witness ==
    /\ SmilesReturned
    /\ util.ranges = JsArray(<<>>)
    /\ util.difference = 150
    /\ util.smiles = 3

(* the band contains the offset *)
Contains(range, offset) ==
    offset >= range.min /\ (range.max = NULL \/ offset <= range.max)

(* C19: for every offset and every non-empty band list, calculateSmiles   *)
(* returns the reward of the first band, in ascending order of min (bands *)
(* of equal min in their stored order), that contains the offset, and 0   *)
(* when no band contains it.                                              *)
C19_FirstInOrder ==
    (SmilesReturned /\ util.ranges.kind = "array" /\ util.ranges.arr # <<>>)
    => LET bands == util.ranges.arr
           hits == {i \in DOMAIN bands : Contains(bands[i], util.difference)}
       IN  IF hits = {} THEN util.smiles = 0
           ELSE \E i \in hits :
                   /\ util.smiles = bands[i].smiles
                   /\ \A j \in hits :
                          \/ bands[i].min < bands[j].min
                          \/ bands[i].min = bands[j].min /\ i <= j

(* a list stored out of order, both bands containing the offset: the *)
(* band of the smaller min gives the reward                          *)
C19_Witness ==
    /\ SmilesReturned
    /\ util.ranges = JsArray(<<Range(1, NULL, 1), Range(0, NULL, 2)>>)
    /\ util.difference = 1
    /\ util.smiles = 2

(* a gap in the list: no band contains the offset *)
C19_WitnessGap ==
    /\ SmilesReturned
    /\ util.ranges = JsArray(<<Range(0, 0, 1), Range(2, NULL, 2)>>)
    /\ util.difference = 1
    /\ util.smiles = 0

(* C20: for every millisecond m of the second, 0..999, the offset of a    *)
(* click is m when m < 500 and 1000 - m otherwise; 0 gives 0, 499 gives   *)
(* 499, 500 gives 500 and 999 gives 1.                                    *)
C20_Offset ==
    DifferenceReturned
    => /\ util.difference = (IF util.ms < 500 THEN util.ms ELSE 1000 - util.ms)
       /\ (util.ms = 0 => util.difference = 0)
       /\ (util.ms = 499 => util.difference = 499)
       /\ (util.ms = 500 => util.difference = 500)
       /\ (util.ms = 999 => util.difference = 1)

C20_Witness ==
    /\ DifferenceReturned
    /\ util.fn = "calculateDifference"
    /\ util.ms = 999
    /\ util.difference = 1

(* the offset is at most half a second, and is half a second at m = 500 *)
C21_Below500 ==
    DifferenceReturned => util.difference \in 0..499

(* C21: for every millisecond m of the second, 0..999, the offset of a    *)
(* click is an integer from 0 to 500; 500 is reached, at m = 500 only.    *)
C21_Range ==
    DifferenceReturned
    => /\ util.difference \in 0..500
       /\ (util.difference = 500 <=> util.ms = 500)

C21_Witness ==
    /\ DifferenceReturned
    /\ util.fn = "handleButtonClick"
    /\ util.ms = 500
    /\ util.difference = 500

CooldownFormatted == util.fn = "formatRemainingCooldown" /\ util.returned

(* the remaining time in whole minutes, rounded up: the least N with *)
(* N minutes >= remaining                                             *)
MinutesUp(remaining) ==
    CHOOSE N \in 0..(MaxMinutes + 2) :
        N * 60000 >= remaining /\ (N - 1) * 60000 < remaining

(* C22: formatRemainingCooldown rounds the remaining time up to whole     *)
(* minutes: remaining <= 0 gives "available now"; otherwise, with N the   *)
(* minutes rounded up, N <= 1 gives "in less than a minute" (60000 ms     *)
(* included) and N > 1 gives "in N minutes" (60001 ms: "in 2 minutes").   *)
C22_RoundsUp ==
    CooldownFormatted
    => LET remaining == util.cooldownEndTimestamp - util.dateNow
           N == MinutesUp(remaining)
       IN  /\ remaining <= 0 => util.text = "available now"
           /\ remaining > 0 /\ N <= 1 => util.text = "in less than a minute"
           /\ remaining > 0 /\ N > 1
                  => util.text = "in " \o ToString(N) \o " minutes"
           /\ remaining = 60000 => util.text = "in less than a minute"
           /\ remaining = 60001 => util.text = "in 2 minutes"

C22_Witness ==
    /\ CooldownFormatted
    /\ util.cooldownEndTimestamp - util.dateNow = 60001
    /\ util.text = "in 2 minutes"

SettingsLoaded ==
    /\ util.fn \in {"game.ts loadSettings", "loadSettings"}
    /\ util.returned
    /\ util.settings # NoSettings

(* C23: after loadSettings completes with a settings row, its             *)
(* smile_ranges is a non-empty list (the default bands when the value     *)
(* read is null or empty) and its cooldown_minutes is positive (60 when   *)
(* the value read is null, zero or negative); getSmileRanges and          *)
(* getCooldownMinutes return these defaults when settings is null.        *)
C23_Defaults ==
    /\ SettingsLoaded
       => /\ ~util.loaded.smile_ranges.isnull
          /\ util.loaded.smile_ranges.arr # <<>>
          /\ (util.settings.smile_ranges.isnull
              \/ util.settings.smile_ranges.arr = <<>>)
             => util.loaded.smile_ranges.arr = defaultSmileRanges
          /\ util.loaded.cooldown_minutes # NULL
          /\ util.loaded.cooldown_minutes > 0
          /\ (util.settings.cooldown_minutes = NULL
              \/ util.settings.cooldown_minutes <= 0)
             => util.loaded.cooldown_minutes = 60
    /\ (util.fn = "getSmileRanges" /\ util.returned /\ util.settings = NoSettings)
       => util.bands = defaultSmileRanges
    /\ (util.fn = "getCooldownMinutes" /\ util.returned /\ util.settings = NoSettings)
       => util.minutes = 60

(* the same of the later copy of the store alone *)
C23_DefaultsLater ==
    util.fn # "game.ts loadSettings" => C23_Defaults

(* C24: a call accepted after the cooldown has elapsed opens a new        *)
(* session and counts itself in it: the commit leaves attempts_left =     *)
(* attempts_number - 1, best_result = the offset of this attempt (the     *)
(* best of the session before is not carried over), total_smiles = the    *)
(* smiles of this offset, and last_attempt_at = now() of the call.        *)
C24_Step ==
    \A c \in Conns :
        (Accepts(c) /\ loc[c].current_attempts_left <= 0)
        => users'[auth_uid(c)] =
              [attempts_left |-> game_settings.attempts_number - 1,
               last_attempt_at |-> loc[c].current_time_check,
               total_smiles |->
                   calculate_smiles_from_ranges(loc[c].difference_value,
                                                game_settings.smile_ranges),
               best_result |-> loc[c].difference_value]

C24_NewSession == [][C24_Step]_vars

(* a session was used up with a best of 0 or 5; the attempt made after   *)
(* the cooldown, of offset 10, is the only one of the new session and is *)
(* its best                                                               *)
C24_Witness ==
    /\ res["c1"].outcome = "accepted" /\ res["c1"].reset
    /\ Len(RowsOf("p1")) >= 2
    /\ \E i \in 1..(Len(attempts) - 1) : attempts[i].difference < 10
    /\ attempts[Len(attempts)].difference = 10
    /\ sess["p1"].acc = <<10>>
    /\ users["p1"].best_result = 10
    /\ users["p1"].attempts_left = sess["p1"].aps - 1
    /\ users["p1"].last_attempt_at = now
    /\ \A c \in Conns : pc[c] = "idle"
    /\ rst["p1"] = "idle"

(* C25: no attempt is recorded for a player whose attempts_left is 0      *)
(* unless the same call first made the reset after the cooldown; a call   *)
(* that still has no attempt left after the cooldown check is rejected    *)
(* with 'No attempts left' and leaves the user row and the attempts as    *)
(* they were.                                                             *)
C25_Step ==
    \A c \in Conns :
        LET p == auth_uid(c) IN
        /\ (Accepts(c) /\ users[p].attempts_left <= 0)
           => /\ loc[c].current_attempts_left <= 0
              /\ res'[c].reset
        /\ (/\ Completes(c)
            /\ loc[c].current_attempts_left <= 0
            /\ CooldownPassed(loc[c].current_last_attempt_at,
                              loc[c].current_time_check,
                              EffectiveCooldown(game_settings.cooldown_minutes))
            /\ game_settings.attempts_number <= 0)
           => /\ res'[c].outcome = "No attempts left"
              /\ users' = users
              /\ attempts' = attempts

C25_NoAttemptAtZero == [][C25_Step]_vars

(* C26: while attempts_left > 0 a call is always accepted, however       *)
(* recently last_attempt_at was set: the cooldown is consulted only when  *)
(* attempts_left is 0.  attempts_left is the value the call has read.    *)
C26_Step ==
    \A c \in Conns :
        (Completes(c) /\ loc[c].current_attempts_left > 0)
        => /\ res'[c].outcome = "accepted"
           /\ ~res'[c].reset
           /\ Len(attempts') = Len(attempts) + 1

C26_ActiveAccepts == [][C26_Step]_vars

(* an attempt accepted in the very minute of the attempt before it *)
C26_Witness ==
    /\ res["c1"].outcome = "accepted" /\ ~res["c1"].reset
    /\ pc["c1"] = "idle"
    /\ Len(sess["p1"].acc) >= 2
    /\ Len(RowsOf("p1")) = Len(sess["p1"].acc)
    /\ users["p1"].last_attempt_at = now
    /\ now = 0

(* the lists that hold the bands of a list in another order *)
Reordered(bands) ==
    {[i \in DOMAIN bands |-> bands[f[i]]] : f \in Permutations(DOMAIN bands)}

(* the result does not change when the bands are handed over in another *)
(* order                                                                 *)
SameInAnyOrder ==
    \A other \in Reordered(util.ranges.arr) :
        calculateSmiles(util.difference, JsArray(other)) = util.smiles

C28_Step ==
    \A p \in Players :
        /\ (rst[p] = "idle" /\ rst'[p] = "caught")
           => /\ users' = users
              /\ attempts' = attempts
        /\ rst[p] = "caught"
           => /\ users' = users
              /\ attempts' = attempts
              /\ rst'[p] \in {"caught", "idle"}
              /\ rst'[p] = "idle" => ~resetUserAttemptsReturn(rst[p])

C28_UpdateFailure == [][C28_Step]_vars

(* the update has failed for a player who has played: the row is not the *)
(* row of a fresh session and the attempt rows are there                 *)
C28_Witness ==
    /\ rst["p1"] = "caught"
    /\ RowsOf("p1") # <<>>
    /\ users["p1"].best_result # NULL
    /\ users["p1"].attempts_left < sess["p1"].aps

----------------------------------------------------------------------------
(* Clicks on the game button *)

(* the click calls handleAttemptSubmit, which starts record_attempt *)
CallsSubmit ==
    /\ clicked'.outcome = "submitted"
    /\ hpc = "idle" /\ hpc' = "rpc"
    /\ isSubmitting'
    /\ pc[HookConn] = "idle" /\ pc'[HookConn] = "selected"

(* the click starts nothing: the hook and the call stay as they are *)
StartsNothing ==
    /\ clicked'.outcome # "submitted"
    /\ UNCHANGED <<hook, rpc, server, isClickDelayed>>

(* the cooldown end the hook holds is in the future *)
CooldownAhead == cooldownEndTime # NULL /\ now < cooldownEndTime

(* the click is answered with the remaining-cooldown warning *)
StoppedByCooldown ==
    currentUser.attempts_left <= 0 /\ CooldownAhead

(* C29 as stated, its last part: a click while neither a submission is in *)
(* progress nor the click delay is running is submitted.                   *)
C29_ClearedClickSubmits ==
    [][(Click(WorldGame) /\ ~isSubmitting /\ ~isClickDelayed) => CallsSubmit]_vars

C29_Step ==
    Click(WorldGame) =>
        /\ (isSubmitting \/ isClickDelayed) => StartsNothing
        /\ clicked'.outcome = "submitted" => ~SubmitInFlight /\ ~clicked'.overlap
        /\ (~isSubmitting /\ ~isClickDelayed /\ ~StoppedByCooldown) => CallsSubmit

(* C29: while a submission is in progress (isSubmitting) or the click     *)
(* delay is running, a click on the game button starts no submission;     *)
(* no click calls handleAttemptSubmit while a call is in flight, so at    *)
(* most one is in flight; and a click after both have cleared is          *)
(* submitted, unless the player is out of attempts with the cooldown end  *)
(* still ahead, when it is answered with the cooldown warning.            *)
C29_OneSubmission == [][C29_Step]_vars

(* a click was rejected with "Please wait", and the next click, after the *)
(* earlier submission and the delay were over, is submitted               *)
C29_Witness ==
    /\ clicked.outcome = "submitted" /\ clicked.previous = "wait"
    /\ ~clicked.delayed /\ ~clicked.submitting
    /\ inserted >= 1
    /\ hpc = "rpc"

(* a click rejected while the submission is in flight and the delay over *)
C29_WitnessSubmitting ==
    /\ clicked.outcome = "wait" /\ clicked.submitting /\ ~clicked.delayed
    /\ SubmitInFlight

(* a click rejected by the delay alone, the submission over *)
C29_WitnessDelayed ==
    /\ clicked.outcome = "wait" /\ clicked.delayed /\ ~clicked.submitting

(* a click with both cleared that is answered with the cooldown warning *)
C29_WitnessCooldown ==
    /\ clicked.outcome = "cooldown" /\ ~clicked.delayed /\ ~clicked.submitting

(* C30 as stated, its second part: with no attempts left and the cooldown *)
(* end not in the future, a click calls handleAttemptSubmit.               *)
C30_CooldownOverSubmits ==
    [][(Click(WorldGame) /\ currentUser.attempts_left <= 0 /\ ~CooldownAhead)
        => CallsSubmit]_vars

C30_Step ==
    Click(WorldGame) /\ currentUser.attempts_left <= 0 =>
        /\ CooldownAhead =>
             /\ StartsNothing
             /\ clicked'.outcome = "cooldown"
             /\ clicked'.toast # "Please wait before the next attempt."
        /\ (~CooldownAhead /\ ~isClickDelayed /\ ~isSubmitting) => CallsSubmit
        /\ (~CooldownAhead /\ (isClickDelayed \/ isSubmitting)) =>
             /\ StartsNothing
             /\ clicked'.toast = "Please wait before the next attempt."

(* C30: with attempts_left <= 0 and cooldownEndTime set and in the future *)
(* a click only shows the remaining-cooldown warning and does not call    *)
(* handleAttemptSubmit; with attempts_left <= 0 and the cooldown end not  *)
(* in the future the click passes the cooldown check, and it calls        *)
(* handleAttemptSubmit when neither the click delay is running nor a      *)
(* submission is in progress, and is told to wait otherwise.              *)
C30_CooldownCheck == [][C30_Step]_vars

(* a click with no attempts left, after the cooldown end the hook holds   *)
(* has passed, has called handleAttemptSubmit                             *)
C30_Witness ==
    /\ clicked.outcome = "submitted" /\ clicked.exhausted /\ ~clicked.cooling
    /\ cooldownEndTime # NULL /\ now >= cooldownEndTime
    /\ hpc = "rpc"

(* a click with no attempts left during the cooldown: the warning only *)
C30_WitnessWarning ==
    /\ clicked.outcome = "cooldown" /\ clicked.exhausted /\ clicked.cooling
    /\ clicked.toast = "Next game will be available in less than a minute."
    /\ hpc = "idle"

(* a click with no attempts left, the cooldown over, during the delay *)
C30_WitnessWait ==
    /\ clicked.outcome = "wait" /\ clicked.exhausted /\ ~clicked.cooling

----------------------------------------------------------------------------
(* The cooldown end time held by the hook *)

EffectReturned == util.fn = "cooldown effect" /\ util.returned

(* the cooldown the client counts with: cooldown_minutes of its settings, *)
(* 60 when it has no settings or no cooldown_minutes                       *)
ClientCooldownMinutes(settings) ==
    IF settings.cooldown_minutes = NULL THEN 60 ELSE settings.cooldown_minutes

(* attempts_left <= 0, last_attempt_at set, and its end still in the future *)
StillCooling(user, settings, dateNow, minute) ==
    /\ user # NoUser
    /\ user.attempts_left <= 0
    /\ user.last_attempt_at # NULL
    /\ user.last_attempt_at + ClientCooldownMinutes(settings) * minute > dateNow

(* C31: the effect sets cooldownEndTime to last_attempt_at +               *)
(* cooldown_minutes * 60000 ms exactly when attempts_left <= 0,            *)
(* last_attempt_at is set and that instant is still in the future, and to *)
(* null in every other case (attempts left, no last attempt, or cooldown  *)
(* expired, the very instant of its end included).                        *)
C31_EndTime ==
    EffectReturned =>
        IF StillCooling(util.user, util.settings, util.dateNow, 60000)
        THEN util.endTime = util.user.last_attempt_at
                            + ClientCooldownMinutes(util.settings) * 60000
        ELSE util.endTime = NULL

C31_EachChangeStep ==
    (currentUser' # currentUser \/ store'.cooldown_minutes # store.cooldown_minutes)
    => IF StillCooling(currentUser', store', now, 1)
       THEN cooldownEndTime' = currentUser'.last_attempt_at
                               + ClientCooldownMinutes(store')
       ELSE cooldownEndTime' = NULL

(* in the sessions: every change of currentUser or of the cooldown        *)
(* setting of the client leaves cooldownEndTime at the value of the effect *)
C31_EachChange == [][C31_EachChangeStep]_vars

(* the effect has set an end time one millisecond ahead *)
C31_Witness ==
    /\ EffectReturned
    /\ util.user.attempts_left <= 0
    /\ util.settings.cooldown_minutes = 30
    /\ util.endTime = util.dateNow + 1
    /\ util.endTime = LastAttempt + 30 * 60000

(* the effect has found the cooldown over at the very instant of its end *)
C31_WitnessExpired ==
    /\ EffectReturned
    /\ util.user.attempts_left <= 0 /\ util.user.last_attempt_at # NULL
    /\ util.dateNow = LastAttempt + ClientCooldownMinutes(util.settings) * 60000
    /\ util.endTime = NULL

(* in the sessions: the hook holds an end time after a refresh *)
C31_WitnessSession ==
    /\ cooldownEndTime # NULL /\ currentUser.attempts_left <= 0
    /\ cooldownEndTime = currentUser.last_attempt_at + store.cooldown_minutes
    /\ store # NoSettings

----------------------------------------------------------------------------
(* handleAttemptSubmit after recordAttempt has returned *)

(* recordAttempt has returned false to the call of the hook, which is *)
(* about to refresh                                                    *)
FailureReported == hpc = "refresh" /\ ~res[HookConn].report.success

(* the call of the hook is over and has returned false *)
ReturnedFalse(outcome) ==
    /\ hpc = "idle" /\ pc[HookConn] = "idle"
    /\ res[HookConn].outcome = outcome
    /\ ~handleAttemptSubmitReturn
    /\ ~isSubmitting

C32_Step ==
    /\ (hpc = "rpc" /\ hpc' # hpc /\ ~res'[HookConn].report.success)
         => /\ hpc' = "refresh"
            /\ UNCHANGED <<hookAttempts, currentUser>>
    /\ (FailureReported /\ hpc' # hpc)
         => /\ hpc' = "idle"
            /\ hookAttempts' = hookAttempts
            /\ currentUser' \in {users[auth_uid(HookConn)], currentUser}
            /\ ~isSubmitting'
            /\ ~handleAttemptSubmitReturn'
            /\ UNCHANGED <<server, rpc>>

(* C32: when recordAttempt reports failure (cooldown, no attempts or an  *)
(* error), handleAttemptSubmit returns false, leaves the attempts list   *)
(* of the client as it is, does not fetch the attempts again, and only   *)
(* reads currentUser back from the server.                               *)
C32_FailureFrame == [][C32_Step]_vars

(* a call rejected for the cooldown is over: the list of the session *)
(* still shown, the user record read back                             *)
C32_Witness ==
    /\ ReturnedFalse("Cooldown active")
    /\ hookAttempts # <<>>
    /\ currentUser = users[auth_uid(HookConn)]
    /\ currentUser.attempts_left <= 0

(* the same after 'No attempts left' and after a database error *)
C32_WitnessNoAttempts == ReturnedFalse("No attempts left") /\ hookAttempts # <<>>
C32_WitnessError == ReturnedFalse("Database error") /\ hookAttempts # <<>>

(* C33: every handleAttemptSubmit call that has set isSubmitting to true *)
(* sets it back to false in the end, whether the call of record_attempt  *)
(* succeeds, is rejected or fails, and whether the refresh of the user   *)
(* or of the attempts that follows succeeds or fails: the client does    *)
(* not stay in the submitting state.                                     *)
C33_SubmittingEnds == isSubmitting ~> ~isSubmitting

(* between two calls the indicator is never left set *)
C33_ClearedWhenIdle == (hpc = "idle") => ~isSubmitting

(* an accepted call whose refresh of the user has failed is over: the   *)
(* record of the client is behind the server, the indicator cleared     *)
C33_Witness ==
    /\ hpc = "idle" /\ ~isSubmitting
    /\ res[HookConn].outcome = "accepted"
    /\ currentUser # NoUser
    /\ currentUser.attempts_left > users[auth_uid(HookConn)].attempts_left

----------------------------------------------------------------------------
(* best_result under concurrent calls *)

C34_Step ==
    \A c \in Conns :
        LET p == auth_uid(c)
        IN  (Accepts(c) /\ ~res'[c].reset /\ users[p].best_result # NULL)
            => users'[p].best_result <= users[p].best_result

(* C34: under any interleaving of concurrent accepted record_attempt     *)
(* calls of one player, an accepted call that opens no new session never *)
(* replaces best_result by a larger offset, and once all calls are over  *)
(* best_result is the least offset among the attempts accepted in the    *)
(* current session.                                                      *)
C34_NeverOverwritesSmaller ==
    /\ [][C34_Step]_vars
    /\ [](InFlight = {} /\ (\A p \in Players : rst[p] = "idle")
          => \A p \in Players : users[p].best_result = LeastOf(sess[p].acc))

----------------------------------------------------------------------------
(* The end of the cooldown as the client and as the server see it *)

(* Game.tsx lines 274-289: the click of an exhausted player is let        *)
(* through to the submission                                               *)
LetThrough == clicked.outcome = "submitted" /\ clicked.exhausted /\ ~clicked.cooling

C35_Step ==
    (/\ Completes(HookConn)
     /\ LetThrough
     /\ store = Loaded(game_settings)
     /\ currentUser = users[auth_uid(HookConn)])
    => res'[HookConn].outcome = "accepted"

(* C35: the client and the server agree on when the cooldown is over:    *)
(* when the client, holding the current user row and the current         *)
(* settings, lets the click of an exhausted player through because it    *)
(* judges the cooldown elapsed, the record_attempt call made at that     *)
(* instant is accepted.                                                  *)
C35_ClientServerAgree == [][C35_Step]_vars

(* the same on single rows: the effect of the hook leaves no cooldown    *)
(* end (the click is let through) exactly when line 223 of               *)
(* record_attempt, with the same row, the same settings and the same     *)
(* instant, finds the cooldown passed                                    *)
ServerPasses(user, settings, dateNow) ==
    CooldownPassed(user.last_attempt_at, dateNow,
                   EffectiveCooldown(settings.cooldown_minutes) * 60000)

Disagree ==
    /\ EffectReturned
    /\ util.user # NoUser /\ util.user.attempts_left <= 0
    /\ util.settings # NoSettings
    /\ (util.endTime = NULL) # ServerPasses(util.user, util.settings, util.dateNow)

C35_AgreeOnRow == ~Disagree

(* the disagreements: at the very end of the cooldown, with a cooldown   *)
(* of zero or less, and with no last attempt                             *)
C35_AtBoundary ==
    /\ Disagree /\ util.settings.cooldown_minutes = 30
    /\ util.dateNow = util.user.last_attempt_at + 30 * 60000
C35_AtZero == Disagree /\ util.settings.cooldown_minutes = 0
C35_AtNegative == Disagree /\ util.settings.cooldown_minutes < NULL
C35_AtNoLastAttempt == Disagree /\ util.user.last_attempt_at = NULL

(* with cooldown_minutes null both count with 60 minutes and disagree at *)
(* the very end only                                                     *)
C35_NullAgrees ==
    (/\ Disagree /\ util.settings.cooldown_minutes = NULL
     /\ util.user.last_attempt_at # NULL)
    => util.dateNow = util.user.last_attempt_at + 60 * 60000

----------------------------------------------------------------------------
(* The reward as the client and as the server compute it *)

(* the jsonb value of the column that the client has received as ranges *)
ColumnOf(ranges) ==
    IF ranges.kind = "array" THEN JsonArr(ranges.arr) ELSE JsonNull

(* the reward the server computes for the offset of the call *)
ServerSmiles ==
    calculate_smiles_from_ranges(util.difference, ColumnOf(util.ranges))

(* the bands of the call are stored in ascending order of min *)
StoredAscending ==
    \A i \in 1..(Len(util.ranges.arr) - 1) :
        util.ranges.arr[i].min <= util.ranges.arr[i + 1].min

(* C36: calculateSmiles and calculate_smiles_from_ranges return the same  *)
(* reward for every offset and every configured band list, null, empty,   *)
(* unsorted and overlapping ones included.                                *)
C36_SameReward == SmilesReturned => util.smiles = ServerSmiles

(* the two agree on no list, on the empty list and on every list stored  *)
(* in ascending order of min                                              *)
C36_SameWhenAscending ==
    (SmilesReturned /\ StoredAscending) => util.smiles = ServerSmiles

(* an overlapping list stored with the larger min first: the rewards differ *)
C36_Differ ==
    /\ SmilesReturned
    /\ util.ranges = JsArray(<< Range(1, NULL, 1), Range(0, NULL, 2) >>)
    /\ util.difference = 1
    /\ util.smiles = 2 /\ ServerSmiles = 1

----------------------------------------------------------------------------
(* The list after a submission and the list of the initial load *)

(* the list loadInitialData computes from the server as it is *)
LoadedList ==
    InitialView(auth_uid(HookConn), users[auth_uid(HookConn)], AttemptsLimit(store))

C37_Step ==
    (hpc = "fetch" /\ hpc' = "idle" /\ currentUser = users[auth_uid(HookConn)])
    => hookAttempts' = LoadedList

(* C37: for the same server state, the attempts list handleAttemptSubmit *)
(* sets after a successful submission is the list loadInitialData would  *)
(* compute, also when the submission opened a new session and when the   *)
(* attempts_left the client remembered was stale.                        *)
C37_SameAsInitialLoad == [][C37_Step]_vars

----------------------------------------------------------------------------
(* Lock-out *)

(* the one player of WorldLive *)
LivePlayer == auth_uid("c1")

(* no attempts left: the row record_attempt sends to the cooldown check *)
LockedOut(p) == users[p].attempts_left = 0

(* no attempts left and no last attempt: line 223 rejects every call *)
LockedForever(p) == LockedOut(p) /\ users[p].last_attempt_at = NULL

(* the cooldown of the row ends, and a row of the attempts table is left, *)
(* within the time and the rows looked at                                 *)
EndsInTime(p) ==
    /\ users[p].last_attempt_at # NULL =>
         users[p].last_attempt_at + EffectiveCooldown(game_settings.cooldown_minutes)
            < MaxTime
    /\ inserted < WorldLive.rows

C38_NoLockedForever == \A p \in Players : ~LockedForever(p)

C38_AcceptedAgain ==
    \A n \in 0..(WorldLive.rows - 1) :
        (LockedOut(LivePlayer) /\ EndsInTime(LivePlayer) /\ inserted = n)
            ~> (inserted > n)

----------------------------------------------------------------------------
(* last_attempt_at and best_result *)

NoLastAttempt(p) == users[p].last_attempt_at = NULL
NoBestResult(p) == users[p].best_result = NULL

(* C39: in every reachable state the last_attempt_at of a row is NULL    *)
(* exactly when its best_result is NULL: every accepted attempt sets     *)
(* both, the automatic and the manual reset clear both                   *)
C39_NullTogether == \A p \in Players : NoLastAttempt(p) <=> NoBestResult(p)

(* a manual reset has cleared both columns of a row that had an attempt *)
C39_Witness ==
    \E p \in Players :
        /\ rst[p] = "updated"
        /\ inserted > 0
        /\ NoLastAttempt(p) /\ NoBestResult(p)

(* an attempt accepted after the automatic reset has set both columns *)
C39_WitnessAutomatic ==
    \E c \in Conns :
        /\ res[c].outcome = "accepted" /\ res[c].reset
        /\ ~NoLastAttempt(auth_uid(c)) /\ ~NoBestResult(auth_uid(c))

====
